---- MODULE Spec2Model ----
(***************************************************************************)
(* A model of the capture -> ingest -> index -> retrieve pipeline of the   *)
(* unified-ai repository: the semantic store (src/store/semantic_store.py),*)
(* the RAG engine (src/thought/rag.py), the capture daemons                *)
(* (src/capture/*.py), the PII redactor (src/utils/privacy.py) and the     *)
(* agent orchestrator (src/agents/orchestrator.py).                        *)
(***************************************************************************)
EXTENDS Integers, Sequences, FiniteSets, TLC

VARIABLES
    \* ---- semantic store (capture.db tables and the LanceDB table) ----
    semantic_content,      \* rows of table semantic_content, in rowid order
    semantic_content_fts,  \* rowids present in the FTS5 index
    entities,              \* rows of table entities: [content_id, entity_text]
    lance_rows,            \* ids stored in LanceDB table semantic_embeddings
    lance_table,           \* self.lance_table is not None
    embedding_model,       \* self.embedding_model is not None
    nlp,                   \* self.nlp is not None
    source_tables,         \* captures / clipboard_history / file_history as sync sees them
    clock,                 \* datetime.now()
    add_pc,                \* position of the add call in flight
    add_cur,               \* its arguments and the rowid it was assigned
    last                   \* outcome of the last finished call

storeVars == <<semantic_content, semantic_content_fts, entities, lance_rows,
               lance_table, embedding_model, nlp, source_tables, clock,
               add_pc, add_cur, last>>

\* ---- file watcher (capture.db tables file_versions and file_history) ----
VARIABLES
    file_versions,         \* rows of table file_versions, in rowid order
    file_history,          \* rows of table file_history, in rowid order
    fw_pc,                 \* position of each process_file call in flight
    fw_cur                 \* its event, the version it read, and its outcome

fileVars == <<file_versions, file_history, fw_pc, fw_cur>>

\* ---- clipboard monitor (table clipboard_history and one ClipboardMonitor) ----
VARIABLES
    clipboard,             \* the system clipboard, as pyperclip.paste() reads it
    clipboard_history,     \* rows of table clipboard_history, in rowid order
    last_hash,             \* self.last_hash
    clip_running,          \* self.running
    clip_last              \* what the last capture_once did

clipVars == <<clipboard, clipboard_history, last_hash, clip_running, clip_last>>

\* ---- screen capture (table captures and one ScreenCapture) ----
VARIABLES
    screens,               \* the frame each monitor shows, by monitor index
    captures,              \* rows of table captures, in rowid order
    last_hashes,           \* self.last_hashes, by monitor index (0: combined)
    capture_config,        \* self.capture_mode and self.specific_monitors
    screen_last            \* what the last capture_once did

screenVars == <<screens, captures, last_hashes, capture_config, screen_last>>

\* ---- PII redactor (one PIIDetector and the text handed through redact) ----
VARIABLES
    enabled_types,         \* the enabled_types the detector was constructed with
    redact_in,             \* the text first handed to redact
    redact_out             \* what redact returned, and what it returned for that, ...

redactVars == <<enabled_types, redact_in, redact_out>>

\* ---- agent orchestrator (one ExecutionPlan in the hands of one Orchestrator) ----
VARIABLES
    plan_steps,            \* plan.steps: the PlanStep objects, in list order
    plan_status,           \* plan.status
    orch_pc,               \* position of the orchestrator in process
    orch_i,                \* the step the loop of _execute_plan is at (1-based)
    response               \* what _generate_response returned

orchVars == <<plan_steps, plan_status, orch_pc, orch_i, response>>

\* ---- run loops of the capture daemons (run / stop of each daemon object) ----
VARIABLES
    daemon_pc,             \* where each daemon's run() is
    daemon_running,        \* self.running of each daemon
    daemon_rows,           \* rows each daemon's loop has committed
    daemon_last            \* how each daemon's last observation ended

loopVars == <<daemon_pc, daemon_running, daemon_rows, daemon_last>>

\* ---- dashboard (GET /api/relationships over table entities) ----
VARIABLES
    rel_entities,          \* rows of table entities as the dashboard reads them,
                           \* one row a mention, in content_id order
    rel_out                \* what get_relationships returned

dashVars == <<rel_entities, rel_out>>

\* ---- action executor (ActionExecutor and the event bus) ----
VARIABLES
    permission_level,      \* ActionExecutor.permission_level
    exec_pc,               \* where the running execute call is
    exec_cur,              \* the call's action: its number, category and method
    exec_calls,            \* execute calls made so far
    published,             \* events given to event_bus.publish, with the call
    tool_calls,            \* calls routed to a tool, with the call's number
    exec_result            \* how the last execute call ended

execVars == <<permission_level, exec_pc, exec_cur, exec_calls, published,
              tool_calls, exec_result>>

\* ---- user manager (tables users and sessions) ----
VARIABLES
    auth_users,            \* ids of the rows of table users
    sessions,              \* rows of table sessions
    session_seq,           \* sessions created so far (AUTOINCREMENT, token source)
    auth_clock,            \* datetime.utcnow()
    auth_last,             \* the last validate_session call and what it returned
    invalidated            \* history: tokens that were invalidated

authVars == <<auth_users, sessions, session_seq, auth_clock, auth_last, invalidated>>

\* ---- onboarding manager (one user's onboarding_state, devices, extensions) ----
VARIABLES
    onb_row,               \* the user's row of table onboarding_state
    onb_devices,           \* the user's rows of table devices
    onb_extensions         \* the user's rows of table extensions

onbVars == <<onb_row, onb_devices, onb_extensions>>

\* What the store's operations leave alone
notStore == <<fileVars, clipVars, screenVars, redactVars, orchVars, loopVars,
              dashVars, execVars, authVars, onbVars>>

\* What the file watcher's operations leave alone
notFiles == <<storeVars, clipVars, screenVars, redactVars, orchVars, loopVars,
              dashVars, execVars, authVars, onbVars>>

\* What the clipboard monitor's operations leave alone
notClip == <<storeVars, fileVars, screenVars, redactVars, orchVars, loopVars,
             dashVars, execVars, authVars, onbVars>>

\* What the screen capture's operations leave alone
notScreen == <<storeVars, fileVars, clipVars, redactVars, orchVars, loopVars,
               dashVars, execVars, authVars, onbVars>>

\* What the redactor leaves alone
notRedact == <<storeVars, fileVars, clipVars, screenVars, orchVars, loopVars,
               dashVars, execVars, authVars, onbVars>>

\* What the orchestrator's plan execution leaves alone
notOrch == <<storeVars, fileVars, clipVars, screenVars, redactVars, loopVars,
             dashVars, execVars, authVars, onbVars>>

\* What the daemons' run loops leave alone
notLoops == <<storeVars, fileVars, clipVars, screenVars, redactVars, orchVars,
              dashVars, execVars, authVars, onbVars>>

\* What the dashboard's reads leave alone
notDash == <<storeVars, fileVars, clipVars, screenVars, redactVars, orchVars,
             loopVars, execVars, authVars, onbVars>>

\* What the action executor leaves alone
notExec == <<storeVars, fileVars, clipVars, screenVars, redactVars, orchVars,
             loopVars, dashVars, authVars, onbVars>>

\* What the user manager leaves alone
notAuth == <<storeVars, fileVars, clipVars, screenVars, redactVars, orchVars,
             loopVars, dashVars, execVars, onbVars>>

\* What the onboarding manager leaves alone
notOnb == <<storeVars, fileVars, clipVars, screenVars, redactVars, orchVars,
            loopVars, dashVars, execVars, authVars>>

vars == <<storeVars, fileVars, clipVars, screenVars, redactVars, orchVars,
          loopVars, dashVars, execVars, authVars, onbVars>>

-----------------------------------------------------------------------------
(* Bounds of the store model *)
MaxContent == 2
MaxSourceRows == 2
MaxClock == 1

\* SQL NULL in the INTEGER column source_id (rowids start at 1)
NoSourceId == 0

\* Texts are sequences of lower-cased FTS tokens; the empty sequence is ''.
EmptyText == <<>>
NullText == <<"NULL">>
Texts == { EmptyText, <<"python", "alice">> }

Tokens(text) == { text[i] : i \in DOMAIN text }

SourceType == {"screen", "clipboard", "file", "manual"}

\* The table each source type is synced from
TableOf(st) ==
    CASE st = "screen" -> "captures"
      [] st = "clipboard" -> "clipboard_history"
      [] st = "file" -> "file_history"

SourceTableNames == {"captures", "clipboard_history", "file_history"}

\* A source table that was never created (its daemon never ran)
Absent == << <<"ABSENT">> >>

MaxLimit == 2

\* What spaCy's model tags as a named entity in the model's texts
NamedEntities == {"alice"}

\* source_type None / '' (search's "if source_type:")
NoSourceType == ""

\* FTS5 queries: the terms of an implicit-AND query; syntax_ok is FALSE for a
\* string the FTS5 parser rejects (such as foo-bar or an unbalanced quote).
Queries ==
    { [terms |-> {"python"}, syntax_ok |-> TRUE],
      [terms |-> {"alice", "guide"}, syntax_ok |-> TRUE],
      [terms |-> {"foo", "bar"}, syntax_ok |-> FALSE] }

NoQuery == [terms |-> {}, syntax_ok |-> TRUE]

NoResult ==
    [op |-> "none", ret |-> <<>>, raised |-> FALSE, path |-> "", q |-> NoQuery,
     limit |-> 0, before |-> 0, again |-> FALSE, retrieved |-> <<>>, llm |-> "",
     answer |-> "", model |-> ""]

-----------------------------------------------------------------------------
(* SemanticStore.__init__ *)

InitStore ==
    /\ semantic_content = <<>>
    /\ semantic_content_fts = {}
    /\ entities = {}
    /\ lance_rows = {}
    /\ lance_table \in BOOLEAN
    /\ embedding_model \in BOOLEAN
    /\ nlp \in BOOLEAN
    /\ source_tables = [t \in SourceTableNames |-> Absent]
    /\ clock = 0
    /\ add_pc = "idle"
    /\ add_cur = [id |-> 0, content |-> EmptyText, source_type |-> "manual",
                  source_id |-> NoSourceId, timestamp |-> 0]
    /\ last = NoResult

-----------------------------------------------------------------------------
(* Source tables, written by the capture daemons *)

SourceRowCount ==
    LET n(t) == IF source_tables[t] = Absent THEN 0 ELSE Len(source_tables[t])
    IN  n("captures") + n("clipboard_history") + n("file_history")

\* The text column of a source row: captures.extracted_text may be '' (OCR
\* found nothing), clipboard_history.content is never '', file_history.content
\* is NULL for a deleted file.
SourceTexts(t) ==
    CASE t = "captures" -> Texts
      [] t = "clipboard_history" -> Texts \ {EmptyText}
      [] t = "file_history" -> Texts \cup {NullText}

InitSourceTable(t) ==
    /\ source_tables[t] = Absent
    /\ source_tables' = [source_tables EXCEPT ![t] = <<>>]
    /\ last' = NoResult
    /\ UNCHANGED <<semantic_content, semantic_content_fts, entities, lance_rows,
                   lance_table, embedding_model, nlp, clock, add_pc, add_cur>>
    /\ UNCHANGED notStore

SourceInsert(t, text) ==
    /\ source_tables[t] # Absent
    /\ SourceRowCount < MaxSourceRows
    /\ source_tables' = [source_tables EXCEPT ![t] = Append(@, text)]
    /\ last' = NoResult
    /\ UNCHANGED <<semantic_content, semantic_content_fts, entities, lance_rows,
                   lance_table, embedding_model, nlp, clock, add_pc, add_cur>>
    /\ UNCHANGED notStore

-----------------------------------------------------------------------------
(* SemanticStore.add *)

\* _extract_entities: [] without a spaCy model, else the entities of the text
ExtractEntities(text) ==
    IF ~nlp THEN {} ELSE Tokens(text) \cap NamedEntities

\* _generate_embedding: None without a model or when encode raises
GenerateEmbedding(encode_ok) == embedding_model /\ encode_ok

EntityRows(content_id, text) ==
    { [content_id |-> content_id, entity_text |-> e] : e \in ExtractEntities(text) }

\* Lines 317-343: INSERT INTO semantic_content, INSERT INTO semantic_content_fts,
\* conn.commit(). The row and its FTS row become visible to every reader here.
AddInsertRow(content, source_type, source_id, tick) ==
    /\ add_pc = "idle"
    /\ Len(semantic_content) < MaxContent
    /\ clock + tick <= MaxClock
    /\ LET row == [id |-> Len(semantic_content) + 1, content |-> content,
                   source_type |-> source_type, source_id |-> source_id,
                   timestamp |-> clock + tick]
       IN  /\ semantic_content' = Append(semantic_content, row)
           /\ semantic_content_fts' = semantic_content_fts \cup {row.id}
           /\ add_cur' = row
    /\ clock' = clock + tick
    /\ add_pc' = "entities"
    /\ last' = NoResult
    /\ UNCHANGED <<entities, lance_rows, lance_table, embedding_model, nlp,
                   source_tables>>
    /\ UNCHANGED notStore

\* Lines 345-363: extract the entities, INSERT INTO entities, second commit.
AddStoreEntities ==
    /\ add_pc = "entities"
    /\ entities' = entities \cup EntityRows(add_cur.id, add_cur.content)
    /\ add_pc' = "embedding"
    /\ UNCHANGED <<semantic_content, semantic_content_fts, lance_rows, lance_table,
                   embedding_model, nlp, source_tables, clock, add_cur, last>>
    /\ UNCHANGED notStore

\* Lines 345-361 raising: self.nlp(text) (spaCy rejects a text longer than its
\* max_length) or the INSERT / commit raises; add has no handler, so the
\* exception leaves add after the first commit.
AddEntitiesRaise ==
    /\ add_pc = "entities"
    /\ nlp
    /\ add_pc' = "idle"
    /\ last' = [NoResult EXCEPT !.op = "add", !.raised = TRUE, !.path = "entities"]
    /\ UNCHANGED <<semantic_content, semantic_content_fts, entities, lance_rows,
                   lance_table, embedding_model, nlp, source_tables, clock, add_cur>>
    /\ UNCHANGED notStore

\* Lines 365-380: the best-effort LanceDB write and the return of content_id.
\* encode_ok: embedding_model.encode did not raise; write_ok: lance_table.add
\* did not raise.
\* Mutant of AddEmbeddingResult: a failed embedding or vector write leaves add
\* as an exception
AddEmbeddingResult_Raises(encode_ok, write_ok) ==
    LET embedding == lance_table /\ embedding_model /\ encode_ok
        stored == embedding /\ write_ok
    IN  [rows |-> IF stored THEN lance_rows \cup {add_cur.id} ELSE lance_rows,
         raised |-> lance_table /\ ~stored,
         ret |-> IF lance_table /\ ~stored THEN <<>> ELSE <<add_cur.id>>,
         path |-> IF ~lance_table THEN "no_table"
                  ELSE IF ~embedding THEN "no_embedding"
                  ELSE IF ~write_ok THEN "write_failed"
                  ELSE "stored"]

AddEmbeddingResult(encode_ok, write_ok) ==
    LET embedding == lance_table /\ GenerateEmbedding(encode_ok)
        stored == embedding /\ write_ok
    IN  [rows |-> IF stored THEN lance_rows \cup {add_cur.id} ELSE lance_rows,
         raised |-> FALSE,
         ret |-> <<add_cur.id>>,
         path |-> IF ~lance_table THEN "no_table"
                  ELSE IF ~embedding THEN "no_embedding"
                  ELSE IF ~write_ok THEN "write_failed"
                  ELSE "stored"]

AddStoreEmbedding(encode_ok, write_ok) ==
    /\ add_pc = "embedding"
    /\ LET r == AddEmbeddingResult(encode_ok, write_ok)
       IN  /\ lance_rows' = r.rows
           /\ last' = [NoResult EXCEPT !.op = "add", !.raised = r.raised,
                                       !.ret = r.ret, !.path = r.path]
    /\ add_pc' = "idle"
    /\ UNCHANGED <<semantic_content, semantic_content_fts, entities, lance_table,
                   embedding_model, nlp, source_tables, clock, add_cur>>
    /\ UNCHANGED notStore

-----------------------------------------------------------------------------
(* SemanticStore.search *)

Min(a, b) == IF a <= b THEN a ELSE b

\* Rows the JOIN ... WHERE semantic_content_fts MATCH ? [AND source_type = ?] selects
Matching(q, source_type) ==
    { i \in DOMAIN semantic_content :
        /\ i \in semantic_content_fts
        /\ q.terms \subseteq Tokens(semantic_content[i].content)
        /\ (source_type = NoSourceType
              \/ semantic_content[i].source_type = source_type) }

\* ORDER BY c.timestamp DESC LIMIT ?: every order of the matching rows that is
\* descending in timestamp (SQL leaves the order of equal timestamps open),
\* cut to the limit.
OrderedTakes(ids, limit) ==
    LET n == Cardinality(ids)
        orders == { p \in [1..n -> ids] :
                      /\ \A i, j \in 1..n : i # j => p[i] # p[j]
                      /\ \A i, j \in 1..n : i < j =>
                           semantic_content[p[i]].timestamp
                             >= semantic_content[p[j]].timestamp }
    IN  { SubSeq(p, 1, Min(limit, n)) : p \in orders }

\* The outcomes of search(query, source_type, limit): the rowids returned, or
\* sqlite3.OperationalError out of cursor.execute when FTS5 rejects the query.
search(q, source_type, limit) ==
    IF ~q.syntax_ok
    THEN { [raised |-> TRUE, ret |-> <<>>] }
    ELSE { [raised |-> FALSE, ret |-> s] :
             s \in OrderedTakes(Matching(q, source_type), limit) }

Search(q, source_type, limit) ==
    /\ add_pc = "idle"
    /\ last.op = "none"
    /\ \E r \in search(q, source_type, limit) :
         last' = [NoResult EXCEPT !.op = "search", !.raised = r.raised,
                                  !.ret = r.ret, !.q = q, !.limit = limit]
    /\ UNCHANGED <<semantic_content, semantic_content_fts, entities, lance_rows,
                   lance_table, embedding_model, nlp, source_tables, clock,
                   add_pc, add_cur>>
    /\ UNCHANGED notStore

-----------------------------------------------------------------------------
(* SemanticStore.semantic_search *)

\* "if not self.lance_table": None is falsy; a LanceDB table object with no
\* rows may be falsy too (the library decides), a table with rows is truthy.
LanceTruthy ==
    IF ~lance_table THEN {FALSE}
    ELSE IF lance_rows = {} THEN {TRUE, FALSE}
    ELSE {TRUE}

\* lance_table.search(embedding).limit(limit).to_list(), joined back to
\* semantic_content: the nearest rows in an order the vectors decide.
VectorResults(limit) ==
    LET n == Min(limit, Cardinality(lance_rows))
    IN  { s \in [1..n -> lance_rows] :
            /\ \A i, j \in 1..n : i # j => s[i] # s[j]
            /\ \A i \in 1..n : s[i] \in DOMAIN semantic_content }

\* Lines 452-496. truthy: the value of "self.lance_table" as a condition;
\* encode_ok: encode did not raise; lookup_ok: the try block did not raise.
semantic_search(q, limit, truthy, encode_ok, lookup_ok) ==
    IF ~truthy
    THEN { [raised |-> r.raised, ret |-> r.ret, path |-> "no_table"] :
             r \in search(q, NoSourceType, limit) }
    ELSE IF ~GenerateEmbedding(encode_ok)
    THEN { [raised |-> r.raised, ret |-> r.ret, path |-> "no_embedding"] :
             r \in search(q, NoSourceType, limit) }
    ELSE IF ~lookup_ok
    THEN { [raised |-> r.raised, ret |-> r.ret, path |-> "lookup_failed"] :
             r \in search(q, NoSourceType, limit) }
    ELSE { [raised |-> FALSE, ret |-> s, path |-> "vector"] :
             s \in VectorResults(limit) }

SemanticSearch(q, limit) ==
    /\ add_pc = "idle"
    /\ last.op = "none"
    /\ \E truthy \in LanceTruthy, encode_ok, lookup_ok \in BOOLEAN :
         \E r \in semantic_search(q, limit, truthy, encode_ok, lookup_ok) :
           last' = [NoResult EXCEPT !.op = "semantic_search", !.raised = r.raised,
                                    !.ret = r.ret, !.path = r.path, !.q = q,
                                    !.limit = limit]
    /\ UNCHANGED <<semantic_content, semantic_content_fts, entities, lance_rows,
                   lance_table, embedding_model, nlp, source_tables, clock,
                   add_pc, add_cur>>
    /\ UNCHANGED notStore

-----------------------------------------------------------------------------
(* SemanticStore.sync_from_captures *)

\* The store as one value, for the loop of sync_from_captures
StoreNow ==
    [content |-> semantic_content, fts |-> semantic_content_fts,
     ents |-> entities, lance |-> lance_rows]

\* Mutant of AlreadySynced: the lookup forgets the source type
AlreadySynced_AnySource(rows, source_type, source_id) ==
    \E i \in DOMAIN rows : rows[i].source_id = source_id

\* "SELECT 1 FROM semantic_content WHERE source_type = ? AND source_id = ?"
AlreadySynced(rows, source_type, source_id) ==
    \E i \in DOMAIN rows :
        /\ rows[i].source_type = source_type
        /\ rows[i].source_id = source_id

\* "WHERE <text> IS NOT NULL AND <text> != ''"
Syncable(text) == text # NullText /\ text # EmptyText

\* One complete self.add(text, source_type=..., source_id=...) on the store s
AddTo(s, text, source_type, source_id, ts, encode_ok, write_ok) ==
    LET id == Len(s.content) + 1
        row == [id |-> id, content |-> text, source_type |-> source_type,
                source_id |-> source_id, timestamp |-> ts]
        stored == lance_table /\ GenerateEmbedding(encode_ok) /\ write_ok
    IN  [content |-> Append(s.content, row),
         fts |-> s.fts \cup {id},
         ents |-> s.ents \cup EntityRows(id, text),
         lance |-> IF stored THEN s.lance \cup {id} ELSE s.lance]

\* The loop over cursor.fetchall() of one source table, from row i on
RECURSIVE SyncRows(_, _, _, _, _, _)
SyncRows(s, source_type, i, ts, encode_ok, write_ok) ==
    LET table == source_tables[TableOf(source_type)]
    IN  IF i > Len(table) THEN s
        ELSE IF Syncable(table[i]) /\ ~AlreadySynced(s.content, source_type, i)
        THEN SyncRows(AddTo(s, table[i], source_type, i, ts, encode_ok, write_ok),
                      source_type, i + 1, ts, encode_ok, write_ok)
        ELSE SyncRows(s, source_type, i + 1, ts, encode_ok, write_ok)

\* One try block: a missing table raises sqlite3.OperationalError, which is passed
SyncTable(s, source_type, ts, encode_ok, write_ok) ==
    IF source_tables[TableOf(source_type)] = Absent THEN s
    ELSE SyncRows(s, source_type, 1, ts, encode_ok, write_ok)

sync_from_captures(s, ts, encode_ok, write_ok) ==
    SyncTable(SyncTable(SyncTable(s, "screen", ts, encode_ok, write_ok),
                        "clipboard", ts, encode_ok, write_ok),
              "file", ts, encode_ok, write_ok)

SyncFromCaptures(tick, encode_ok, write_ok) ==
    /\ add_pc = "idle"
    /\ clock + tick <= MaxClock
    /\ LET s == sync_from_captures(StoreNow, clock + tick, encode_ok, write_ok)
       IN  /\ Len(s.content) <= MaxContent
           /\ semantic_content' = s.content
           /\ semantic_content_fts' = s.fts
           /\ entities' = s.ents
           /\ lance_rows' = s.lance
    /\ clock' = clock + tick
    /\ last' = [NoResult EXCEPT !.op = "sync", !.before = Len(semantic_content),
                                !.again = (last.op = "sync")]
    /\ UNCHANGED <<lance_table, embedding_model, nlp, source_tables, add_pc, add_cur>>
    /\ UNCHANGED notStore

-----------------------------------------------------------------------------
(* ModelRouter and RAGEngine.query *)

DEFAULT_CONFIG ==
    [fast |-> "llama3.2", balanced |-> "mistral",
     powerful |-> "claude-3-5-sonnet-20241022"]

\* ModelRouter.route
route(config, complexity) ==
    IF complexity \notin DOMAIN config THEN config["balanced"]
    ELSE config[complexity]

OfflineAnswer == "Local AI Offline"

\* Mutant of query: the offline answer comes without the retrieved context
query_OfflineWithoutContext(context_items, llm_ok) ==
    [answer |-> IF llm_ok THEN "response content" ELSE "Local AI Offline",
     context |-> IF llm_ok THEN context_items ELSE <<>>,
     model_used |-> "mistral"]

\* Lines 53-91 of RAGEngine.query, after semantic_search returned context_items:
\* route, call the backend inside try/except, build the response.
query(context_items, llm_ok) ==
    [answer |-> IF llm_ok THEN "response content" ELSE OfflineAnswer,
     context |-> context_items,
     model_used |-> route(DEFAULT_CONFIG, "balanced")]

\* RAGEngine.query: semantic_search is called outside the try block, so an
\* exception of it leaves query before the backend is called.
RagQuery(q, limit, llm_ok) ==
    /\ add_pc = "idle"
    /\ last.op = "none"
    /\ \E truthy \in LanceTruthy, encode_ok, lookup_ok \in BOOLEAN :
         \E r \in semantic_search(q, limit, truthy, encode_ok, lookup_ok) :
           IF r.raised
           THEN last' = [NoResult EXCEPT !.op = "query", !.raised = TRUE,
                                         !.path = r.path, !.q = q, !.limit = limit]
           ELSE LET out == query(r.ret, llm_ok)
                IN  last' = [NoResult EXCEPT
                               !.op = "query", !.path = r.path, !.q = q,
                               !.limit = limit, !.retrieved = r.ret,
                               !.llm = IF llm_ok THEN "ok" ELSE "failed",
                               !.ret = out.context, !.answer = out.answer,
                               !.model = out.model_used]
    /\ UNCHANGED <<semantic_content, semantic_content_fts, entities, lance_rows,
                   lance_table, embedding_model, nlp, source_tables, clock,
                   add_pc, add_cur>>
    /\ UNCHANGED notStore

-----------------------------------------------------------------------------
(* add as one call, and the caller taking a result *)

\* SemanticStore.add from entry to return, no exception
Add(content, source_type, source_id, tick, encode_ok, write_ok) ==
    /\ add_pc = "idle"
    /\ last.op \in {"none", "sync"}
    /\ Len(semantic_content) < MaxContent
    /\ clock + tick <= MaxClock
    /\ LET s == AddTo(StoreNow, content, source_type, source_id, clock + tick,
                      encode_ok, write_ok)
       IN  /\ semantic_content' = s.content
           /\ semantic_content_fts' = s.fts
           /\ entities' = s.ents
           /\ lance_rows' = s.lance
    /\ clock' = clock + tick
    /\ last' = NoResult
    /\ UNCHANGED <<lance_table, embedding_model, nlp, source_tables, add_pc, add_cur>>
    /\ UNCHANGED notStore

\* The caller has read the value a search or a query returned
Return ==
    /\ last.op \in {"search", "semantic_search", "query"}
    /\ last' = NoResult
    /\ UNCHANGED <<semantic_content, semantic_content_fts, entities, lance_rows,
                   lance_table, embedding_model, nlp, source_tables, clock,
                   add_pc, add_cur>>
    /\ UNCHANGED notStore

-----------------------------------------------------------------------------
(* The file watcher: FileWatcher.process_file and the tables it writes *)

\* Rows that file_history may hold in a run
MaxFileEvents == 2

\* Rows that file_versions may hold in a run
MaxFileVersions == 2

\* Threads delivering file system events to process_file
Handlers == {1, 2}

FilePaths == {"/notes/a.txt", "/notes/b.md"}
FileHashes == {"h1", "h2"}
FileOperation == {"created", "modified", "deleted"}

\* content_hash of a deleted event
NoHash == "None"

NoFileEvent == [file_path |-> "", operation |-> "", content_hash |-> NoHash,
                version |-> 0, result |-> "none"]

InitFiles ==
    /\ file_versions = <<>>
    /\ file_history = <<>>
    /\ fw_pc = [t \in Handlers |-> "idle"]
    /\ fw_cur = [t \in Handlers |-> NoFileEvent]

\* process_file calls that have not returned
InFlight == {t \in Handlers : fw_pc[t] # "idle"}

\* Versions recorded for a path, in insertion order
VersionsOf(rows, file_path) ==
    SelectSeq(rows, LAMBDA r : r.file_path = file_path)

RECURSIVE MaxVersion(_)
MaxVersion(rows) ==
    IF rows = <<>> THEN 0
    ELSE LET m == MaxVersion(Tail(rows))
         IN  IF Head(rows).version > m THEN Head(rows).version ELSE m

\* SELECT MAX(version) FROM file_versions WHERE file_path = ?, plus one
get_version_number(rows, file_path) ==
    MaxVersion(VersionsOf(rows, file_path)) + 1

\* Mutant of UniqueVersion: the table without its UNIQUE constraint
UniqueVersion_Unconstrained(rows, file_path, version) == TRUE

\* UNIQUE(file_path, version) of table file_versions
UniqueVersion(rows, file_path, version) ==
    \A i \in DOMAIN rows :
        ~(rows[i].file_path = file_path /\ rows[i].version = version)

\* Mutant of StoresVersion: every event stores a version
StoresVersion_EveryEvent(operation) == TRUE

\* "if operation == "modified": self._store_version(...)"
StoresVersion(operation) == operation = "modified"

\* process_file up to its first database call: a deleted event carries no
\* content; a created or modified one reads the file, and a read that raises
\* ends the call with None
ProcessFile(t, file_path, operation, content_hash, extract_ok) ==
    /\ fw_pc[t] = "idle"
    /\ LET event == [file_path |-> file_path, operation |-> operation,
                     content_hash |-> IF operation = "deleted" THEN NoHash
                                      ELSE content_hash,
                     version |-> 0, result |-> "none"]
       IN  IF operation # "deleted" /\ ~extract_ok
           THEN /\ fw_cur' = [fw_cur EXCEPT ![t] = [NoFileEvent EXCEPT !.result = "error"]]
                /\ UNCHANGED fw_pc
           ELSE /\ fw_cur' = [fw_cur EXCEPT ![t] = event]
                /\ fw_pc' = [fw_pc EXCEPT ![t] =
                                IF StoresVersion(operation) THEN "version" ELSE "event"]
    /\ UNCHANGED <<file_versions, file_history>>
    /\ UNCHANGED notFiles

\* _store_version reads the next version number on a connection of its own
GetVersionNumber(t) ==
    /\ fw_pc[t] = "version"
    /\ fw_cur' = [fw_cur EXCEPT ![t].version =
                     get_version_number(file_versions, fw_cur[t].file_path)]
    /\ fw_pc' = [fw_pc EXCEPT ![t] = "insert"]
    /\ UNCHANGED <<file_versions, file_history>>
    /\ UNCHANGED notFiles

\* _store_version inserts and commits; the UNIQUE constraint or a locked
\* database raises, and process_file's except clause returns None
StoreVersion(t, locked) ==
    /\ fw_pc[t] = "insert"
    /\ IF ~locked /\ UniqueVersion(file_versions, fw_cur[t].file_path, fw_cur[t].version)
       THEN /\ file_versions' = Append(file_versions,
                                       [file_path |-> fw_cur[t].file_path,
                                        version |-> fw_cur[t].version,
                                        content_hash |-> fw_cur[t].content_hash])
            /\ fw_pc' = [fw_pc EXCEPT ![t] = "event"]
            /\ UNCHANGED fw_cur
       ELSE /\ fw_cur' = [fw_cur EXCEPT ![t].result = "error"]
            /\ fw_pc' = [fw_pc EXCEPT ![t] = "idle"]
            /\ UNCHANGED file_versions
    /\ UNCHANGED file_history
    /\ UNCHANGED notFiles

\* _store_event inserts the file_history row and commits; a locked database
\* raises out of process_file
StoreEvent(t, locked) ==
    /\ fw_pc[t] = "event"
    /\ IF locked
       THEN /\ fw_cur' = [fw_cur EXCEPT ![t].result = "raised"]
            /\ UNCHANGED file_history
       ELSE /\ file_history' = Append(file_history,
                                      [file_path |-> fw_cur[t].file_path,
                                       operation |-> fw_cur[t].operation,
                                       content_hash |-> fw_cur[t].content_hash])
            /\ fw_cur' = [fw_cur EXCEPT ![t].result = "stored"]
    /\ fw_pc' = [fw_pc EXCEPT ![t] = "idle"]
    /\ UNCHANGED file_versions
    /\ UNCHANGED notFiles

-----------------------------------------------------------------------------
(* The clipboard monitor: ClipboardMonitor.capture_once and its polling loop *)

\* Rows that clipboard_history may hold in a run
MaxClipRows == 3

\* max_content_length, in characters, scaled down from the default 1,000,000
MaxContentLength == 2

\* Texts the user may copy: nothing, short texts, and two texts over the limit
\* that agree on the part that is kept
ClipContents == { <<>>, <<"a">>, <<"b">>, <<"a", "b", "a">>, <<"a", "b", "b">> }

\* self.last_hash = None
NoLastHash == <<"None">>

\* content[:self.max_content_length] + "... [truncated]"
Truncate(content) ==
    IF Len(content) > MaxContentLength
    THEN SubSeq(content, 1, MaxContentLength) \o <<"... [truncated]">>
    ELSE content

\* hashlib.sha256(content.encode('utf-8')).hexdigest(): equal exactly on equal texts
compute_content_hash(content) == <<"sha256">> \o content

is_duplicate(content_hash, prev_hash) == content_hash = prev_hash

InitClipboard ==
    /\ clipboard = <<>>
    /\ clipboard_history = <<>>
    /\ last_hash = NoLastHash
    /\ clip_running = FALSE
    /\ clip_last = "none"

\* The user copies a text
Copy(content) ==
    /\ content # clipboard
    /\ clipboard' = content
    /\ UNCHANGED <<clipboard_history, last_hash, clip_running, clip_last>>
    /\ UNCHANGED notClip

\* capture_once on the state (history, prev_hash): the rows, last_hash and outcome
\* it leaves. paste_ok is pyperclip.paste() returning, store_ok _store_entry
\* committing; either exception is caught and None returned.
capture_once(content, history, prev_hash, paste_ok, store_ok) ==
    LET text == Truncate(content)
        content_hash == compute_content_hash(text)
    IN  IF ~paste_ok
        THEN [history |-> history, last |-> prev_hash, outcome |-> "error"]
        ELSE IF Len(content) = 0
        THEN [history |-> history, last |-> prev_hash, outcome |-> "empty"]
        ELSE IF is_duplicate(content_hash, prev_hash)
        THEN [history |-> history, last |-> prev_hash, outcome |-> "duplicate"]
        ELSE IF ~store_ok
        THEN [history |-> history, last |-> content_hash, outcome |-> "error"]
        ELSE [history |-> Append(history, [content_hash |-> content_hash,
                                           content |-> text]),
              last |-> content_hash, outcome |-> "stored"]

\* One iteration of the loop of run()
CaptureOnce(paste_ok, store_ok) ==
    /\ clip_running
    /\ Len(clipboard_history) < MaxClipRows
    /\ LET r == capture_once(clipboard, clipboard_history, last_hash, paste_ok, store_ok)
       IN  /\ clipboard_history' = r.history
           /\ last_hash' = r.last
           /\ clip_last' = r.outcome
    /\ UNCHANGED <<clipboard, clip_running>>
    /\ UNCHANGED notClip

\* run() on the monitor object: the loop starts, last_hash is as it was
ClipRun ==
    /\ ~clip_running
    /\ clip_running' = TRUE
    /\ UNCHANGED <<clipboard, clipboard_history, last_hash, clip_last>>
    /\ UNCHANGED notClip

\* stop()
ClipStop ==
    /\ clip_running
    /\ clip_running' = FALSE
    /\ UNCHANGED <<clipboard, clipboard_history, last_hash, clip_last>>
    /\ UNCHANGED notClip

\* ClipboardMonitor(db_path) constructed again on the same database, as a new
\* process does
ClipNewMonitor ==
    /\ ~clip_running
    /\ last_hash # NoLastHash
    /\ last_hash' = NoLastHash
    /\ clip_last' = "none"
    /\ UNCHANGED <<clipboard, clipboard_history, clip_running>>
    /\ UNCHANGED notClip

-----------------------------------------------------------------------------
(* The screen capture: ScreenCapture.capture_once in its four modes *)

\* Rows that table captures may hold in a run
MaxCaptures == 3

\* get_monitor_count(): the monitors attached
MonitorCount == 2

\* Grey levels of the downsampled frame of one monitor (image.resize(...).convert('L')),
\* two pixels a monitor: two uniform frames and one with contrast
Frames == { <<0, 0>>, <<2, 2>>, <<0, 2>> }

Monitors == 1..MonitorCount

\* No entry in self.last_hashes
NoScreenHash == <<"absent">>

RECURSIVE SumSeq(_)
SumSeq(pixels) ==
    IF pixels = <<>> THEN 0 ELSE Head(pixels) + SumSeq(Tail(pixels))

\* _compute_image_hash: one bit a pixel, set where the pixel is brighter than
\* the average; the md5 of the bit string is equal exactly on equal bit strings
compute_image_hash(pixels) ==
    [i \in DOMAIN pixels |->
        IF pixels[i] * Len(pixels) > SumSeq(pixels) THEN 1 ELSE 0]

\* sct.grab(sct.monitors[i]); monitors[0] is the virtual screen of all monitors
RECURSIVE Stitch(_, _)
Stitch(shown, i) ==
    IF i > Len(shown) THEN <<>> ELSE shown[i] \o Stitch(shown, i + 1)

Grab(shown, monitor_index) ==
    IF monitor_index = 0 THEN Stitch(shown, 1) ELSE shown[monitor_index]

has_significant_change(hashes, current_hash, monitor_index) ==
    IF hashes[monitor_index] = NoScreenHash THEN TRUE
    ELSE current_hash # hashes[monitor_index]

CaptureModes == {"primary", "all", "specific", "combined"}

\* The configurations a ScreenCapture is constructed with
CaptureConfigs ==
    { [mode |-> "primary", specific_monitors |-> <<1>>],
      [mode |-> "all", specific_monitors |-> <<1>>],
      [mode |-> "combined", specific_monitors |-> <<1>>],
      [mode |-> "specific", specific_monitors |-> <<2, 1>>],
      [mode |-> "specific", specific_monitors |-> <<MonitorCount + 1, 2>>] }

InitScreen ==
    /\ screens = [i \in Monitors |-> <<0, 0>>]
    /\ captures = <<>>
    /\ last_hashes = [i \in 0..(MonitorCount + 1) |-> NoScreenHash]
    /\ capture_config \in CaptureConfigs
    /\ screen_last = "none"

\* What a monitor shows changes
ScreenChange(i, frame) ==
    /\ screens[i] # frame
    /\ screens' = [screens EXCEPT ![i] = frame]
    /\ UNCHANGED <<captures, last_hashes, capture_config, screen_last>>
    /\ UNCHANGED notScreen

\* The state a capture cycle threads through its calls: the rows, last_hashes,
\* the results not yet stored, the _store_capture calls made, and whether one raised
CycleStart(rows, hashes) ==
    [rows |-> rows, hashes |-> hashes, results |-> <<>>, stores |-> 0,
     raised |-> FALSE, stored |-> 0]

\* _capture_monitor(monitor_index): None for an invalid index or an unchanged
\* frame, else last_hashes is updated and a result returned
capture_monitor(c, shown, monitor_index) ==
    IF monitor_index < 1 \/ monitor_index >= Len(shown) + 1
    THEN c
    ELSE LET current_hash == compute_image_hash(Grab(shown, monitor_index))
         IN  IF ~has_significant_change(c.hashes, current_hash, monitor_index)
             THEN c
             ELSE [c EXCEPT !.hashes[monitor_index] = current_hash,
                            !.results = Append(@, [screen_hash |-> current_hash,
                                                   monitor_index |-> monitor_index])]

\* _store_capture(capture): the fail_at-th call of the cycle raises
store_capture(c, result, mode, fail_at) ==
    IF c.stores + 1 = fail_at
    THEN [c EXCEPT !.stores = @ + 1, !.raised = TRUE]
    ELSE [c EXCEPT !.stores = @ + 1, !.stored = @ + 1,
                   !.rows = Append(@, [screen_hash |-> result.screen_hash,
                                       monitor_index |-> result.monitor_index,
                                       capture_mode |-> mode])]

\* capture_all_monitors: every monitor in index order
RECURSIVE capture_all_monitors(_, _, _)
capture_all_monitors(c, shown, i) ==
    IF i > Len(shown) THEN c
    ELSE capture_all_monitors(capture_monitor(c, shown, i), shown, i + 1)

\* The loop of mode ALL over the results: an exception of _store_capture ends it
RECURSIVE StoreResults(_, _, _, _)
StoreResults(c, k, mode, fail_at) ==
    IF k > Len(c.results) \/ c.raised THEN c
    ELSE StoreResults(store_capture(c, c.results[k], mode, fail_at), k + 1, mode, fail_at)

\* The loop of mode SPECIFIC: each configured monitor is captured and, when it
\* gave a result, stored before the next is captured
RECURSIVE CaptureSpecific(_, _, _, _, _)
CaptureSpecific(c, shown, monitor_indices, k, fail_at) ==
    IF k > Len(monitor_indices) \/ c.raised THEN c
    ELSE LET got == capture_monitor(c, shown, monitor_indices[k])
             next == IF Len(got.results) > Len(c.results)
                     THEN store_capture(got, got.results[Len(got.results)],
                                        "specific", fail_at)
                     ELSE got
         IN  CaptureSpecific(next, shown, monitor_indices, k + 1, fail_at)

\* capture_combined: the virtual screen, compared and remembered under index 0
capture_combined(c, shown, fail_at) ==
    LET current_hash == compute_image_hash(Grab(shown, 0))
    IN  IF ~has_significant_change(c.hashes, current_hash, 0)
        THEN c
        ELSE LET got == [c EXCEPT !.hashes[0] = current_hash,
                                  !.results = <<[screen_hash |-> current_hash,
                                                 monitor_index |-> 0]>>]
             IN  store_capture(got, got.results[1], "combined", fail_at)

\* capture_once by capture mode
screen_capture_once(config, rows, hashes, shown, fail_at) ==
    LET c == CycleStart(rows, hashes)
    IN  IF config.mode = "combined"
        THEN capture_combined(c, shown, fail_at)
        ELSE IF config.mode = "all"
        THEN StoreResults(capture_all_monitors(c, shown, 1), 1, "all", fail_at)
        ELSE IF config.mode = "specific"
        THEN CaptureSpecific(c, shown, config.specific_monitors, 1, fail_at)
        ELSE StoreResults(capture_monitor(c, shown, 1), 1, "primary", fail_at)

\* One iteration of the loop of run(): capture_once, its exception caught
ScreenCaptureOnce(fail_at) ==
    /\ Len(captures) + MonitorCount <= MaxCaptures
    /\ LET c == screen_capture_once(capture_config, captures, last_hashes,
                                    screens, fail_at)
       IN  /\ captures' = c.rows
           /\ last_hashes' = c.hashes
           /\ screen_last' = IF c.raised THEN "raised"
                             ELSE IF c.results = <<>> THEN "none"
                             ELSE "captured"
    /\ UNCHANGED <<screens, capture_config>>
    /\ UNCHANGED notScreen

-----------------------------------------------------------------------------
(* The PII redactor: PIIDetector.detect and PIIDetector.redact over texts   *)
(* taken character by character, with the patterns phone_intl, ssn and      *)
(* password_field of PII_PATTERNS as re.finditer matches them               *)

\* Fragments a text is put together from
MaxFrags == 3

\* Times a text is handed through redact
MaxRedactions == 2

DigitChars == {"0", "1", "2", "3", "4", "5", "6", "7", "8", "9"}

Uppers == <<"A", "B", "C", "D", "E", "F", "G", "H", "I", "J", "K", "L", "M",
            "N", "O", "P", "Q", "R", "S", "T", "U", "V", "W", "X", "Y", "Z">>

Lowers == <<"a", "b", "c", "d", "e", "f", "g", "h", "i", "j", "k", "l", "m",
            "n", "o", "p", "q", "r", "s", "t", "u", "v", "w", "x", "y", "z">>

\* \w
WordChars ==
    DigitChars \cup {"_"} \cup {Uppers[i] : i \in DOMAIN Uppers}
               \cup {Lowers[i] : i \in DOMAIN Lowers}

\* \s
SpaceChars == {" ", "\t", "\n"}

QuoteChars == {"\"", "'"}

\* re.IGNORECASE: a letter and its other case match each other
Fold(c) ==
    IF \E i \in DOMAIN Uppers : Uppers[i] = c
    THEN Lowers[CHOOSE i \in DOMAIN Uppers : Uppers[i] = c]
    ELSE c

\* The character at index i, or "" outside the text
At(text, i) == IF i \in 1..Len(text) THEN text[i] ELSE ""

\* \b between the characters at i - 1 and i
Boundary(text, i) == (At(text, i - 1) \in WordChars) # (At(text, i) \in WordChars)

\* Length of the longest run of characters of `class` that starts at i
RECURSIVE RunIn(_, _, _)
RunIn(text, i, class) ==
    IF At(text, i) \in class THEN 1 + RunIn(text, i + 1, class) ELSE 0

\* Length of the longest run of characters outside `class` that starts at i
RECURSIVE RunNotIn(_, _, _)
RunNotIn(text, i, class) ==
    IF i \in 1..Len(text) /\ text[i] \notin class
    THEN 1 + RunNotIn(text, i + 1, class)
    ELSE 0

\* The text has `word` at i, whatever the case
HasWord(text, i, word) ==
    \A k \in DOMAIN word : Fold(At(text, i + k - 1)) = word[k]

\* Each matcher gives the index of the last character of the match that starts
\* at i, or 0 when the pattern does not match there.

\* [1-9]\d{1,14}\b from the first digit
PhoneDigits(text, j) ==
    LET n == RunIn(text, j, DigitChars)
    IN  IF At(text, j) \in (DigitChars \ {"0"}) /\ n >= 2 /\ n <= 15
           /\ At(text, j + n) \notin WordChars
        THEN j + n - 1
        ELSE 0

\* phone_intl: \b\+?[1-9]\d{1,14}\b
match_phone_intl(text, i) ==
    IF ~Boundary(text, i) THEN 0
    ELSE IF At(text, i) = "+" THEN PhoneDigits(text, i + 1)
    ELSE PhoneDigits(text, i)

\* [-\s]?
SkipSeparator(text, i) ==
    IF At(text, i) \in ({"-"} \cup SpaceChars) THEN i + 1 ELSE i

AllDigits(text, i, n) == \A k \in 0..(n - 1) : At(text, i + k) \in DigitChars

AllZero(text, i, n) == \A k \in 0..(n - 1) : At(text, i + k) = "0"

\* ssn: \b(?!000|666|9\d{2})\d{3}[-\s]?(?!00)\d{2}[-\s]?(?!0000)\d{4}\b
match_ssn(text, i) ==
    LET b == SkipSeparator(text, i + 3)
        c == SkipSeparator(text, b + 2)
    IN  IF /\ Boundary(text, i)
           /\ AllDigits(text, i, 3)
           /\ ~AllZero(text, i, 3)
           /\ ~(\A k \in 0..2 : At(text, i + k) = "6")
           /\ At(text, i) # "9"
           /\ AllDigits(text, b, 2)
           /\ ~AllZero(text, b, 2)
           /\ AllDigits(text, c, 4)
           /\ ~AllZero(text, c, 4)
           /\ Boundary(text, c + 4)
        THEN c + 3
        ELSE 0

\* (?:password|passwd|pwd): the length of the keyword at i, or 0
PasswordKeyword(text, i) ==
    IF HasWord(text, i, <<"p", "a", "s", "s", "w", "o", "r", "d">>) THEN 8
    ELSE IF HasWord(text, i, <<"p", "a", "s", "s", "w", "d">>) THEN 6
    ELSE IF HasWord(text, i, <<"p", "w", "d">>) THEN 3
    ELSE 0

\* ["\s:=]
PasswordSeparators == {"\"", ":", "="} \cup SpaceChars

\* ["']?[^\s"']{8,}["']? from q
PasswordValue(text, q) ==
    LET v == IF At(text, q) \in QuoteChars THEN q + 1 ELSE q
        n == RunNotIn(text, v, SpaceChars \cup QuoteChars)
    IN  IF n < 8 THEN 0
        ELSE IF At(text, v + n) \in QuoteChars THEN v + n
        ELSE v + n - 1

\* ["\s:=]+ takes t separators, the longest run first, giving one back at a
\* time while the rest of the pattern fails
RECURSIVE PasswordAfter(_, _, _)
PasswordAfter(text, j, t) ==
    IF t < 1 THEN 0
    ELSE LET e == PasswordValue(text, j + t)
         IN  IF e > 0 THEN e ELSE PasswordAfter(text, j, t - 1)

\* password_field: (?:password|passwd|pwd)["\s:=]+["']?[^\s"']{8,}["']?
match_password_field(text, i) ==
    LET k == PasswordKeyword(text, i)
    IN  IF k = 0 THEN 0
        ELSE PasswordAfter(text, i + k, RunIn(text, i + k, PasswordSeparators))

\* The kinds of PII_PATTERNS taken here, by their position in the dict
PIIKinds == {"phone_intl", "ssn", "password_field"}

KindRank(kind) ==
    IF kind = "phone_intl" THEN 3 ELSE IF kind = "ssn" THEN 5 ELSE 10

MatchEnd(kind, text, i) ==
    IF kind = "phone_intl" THEN match_phone_intl(text, i)
    ELSE IF kind = "ssn" THEN match_ssn(text, i)
    ELSE match_password_field(text, i)

\* "redact_with"
RedactWith(kind) ==
    IF kind = "phone_intl"
    THEN <<"[", "P", "H", "O", "N", "E", " ", "R", "E", "D", "A", "C", "T", "E", "D", "]">>
    ELSE IF kind = "ssn"
    THEN <<"[", "S", "S", "N", " ", "R", "E", "D", "A", "C", "T", "E", "D", "]">>
    ELSE <<"[", "P", "A", "S", "S", "W", "O", "R", "D", " ",
           "R", "E", "D", "A", "C", "T", "E", "D", "]">>

\* pattern.finditer(text): leftmost matches, each search resuming where the
\* match before it ended
RECURSIVE FindIter(_, _, _)
FindIter(kind, text, i) ==
    IF i > Len(text) THEN {}
    ELSE LET e == MatchEnd(kind, text, i)
         IN  IF e > 0
             THEN {[pii_type |-> kind, start |-> i, end |-> e]}
                      \cup FindIter(kind, text, e + 1)
             ELSE FindIter(kind, text, i + 1)

\* PIIDetector.__init__: no enabled_types, or an empty list, enables every kind
CompiledPatterns(enabled) == IF enabled = {} THEN PIIKinds ELSE enabled \cap PIIKinds

\* detect: the matches of every compiled pattern
detect(text, enabled) ==
    IF text = <<>> THEN {}
    ELSE UNION {FindIter(kind, text, 1) : kind \in CompiledPatterns(enabled)}

\* matches.sort(key=lambda m: m.start) is stable: matches that start together
\* stay in the patterns' order
SortsBefore(m1, m2) ==
    \/ m1.start < m2.start
    \/ m1.start = m2.start /\ KindRank(m1.pii_type) < KindRank(m2.pii_type)

\* redacted[:match.start] + match.redacted + redacted[match.end:], with the
\* offsets of the match in the original text
Replace(text, m) ==
    SubSeq(text, 1, IF m.start - 1 < Len(text) THEN m.start - 1 ELSE Len(text))
        \o RedactWith(m.pii_type)
        \o (IF m.end + 1 > Len(text) THEN <<>> ELSE SubSeq(text, m.end + 1, Len(text)))

\* for match in reversed(matches)
RECURSIVE ReplaceReversed(_, _)
ReplaceReversed(text, matches) ==
    IF matches = {} THEN text
    ELSE LET m == CHOOSE x \in matches :
                      \A y \in matches \ {x} : SortsBefore(y, x)
         IN  ReplaceReversed(Replace(text, m), matches \ {m})

\* redact(text) of a detector constructed with enabled_types
redact(text, enabled) == ReplaceReversed(text, detect(text, enabled))

\* The pieces the texts are put together from
Fragments ==
    { <<"p", "w", "d">>, <<"=">>, <<" ">>,
      <<"h", "u", "n", "t", "e", "r", "2", "2">>,
      <<"1", "2">>,
      <<"1", "2", "3", "-", "4", "5", "-", "6", "7", "8", "9">> }

RECURSIVE TextsOf(_)
TextsOf(n) ==
    IF n = 0 THEN {<<>>}
    ELSE LET shorter == TextsOf(n - 1)
         IN  shorter \cup {t \o f : t \in shorter, f \in Fragments}

RedactInputs == TextsOf(MaxFrags)

\* The enabled_types a detector is constructed with ({}: None)
EnabledTypes == SUBSET PIIKinds

InitRedact ==
    /\ enabled_types \in EnabledTypes
    /\ redact_in \in RedactInputs
    /\ redact_out = <<>>

\* redact is called on the text, then on what it returned
Redact ==
    /\ Len(redact_out) < MaxRedactions
    /\ redact_out' = Append(redact_out,
                            redact(IF redact_out = <<>> THEN redact_in
                                   ELSE redact_out[Len(redact_out)],
                                   enabled_types))
    /\ UNCHANGED <<enabled_types, redact_in>>
    /\ UNCHANGED notRedact

-----------------------------------------------------------------------------
(* The agent orchestrator: plan creation, plan execution and the response *)

\* Steps of the longest plan
MaxSteps == 2

StepIds == 1..MaxSteps

\* Orchestrator.AVAILABLE_TOOLS
AVAILABLE_TOOLS ==
    {"search", "semantic_search", "summarize", "open_file", "list_files",
     "get_entities", "answer"}

\* The action names of the plans: two tools of the catalog, and a name the
\* backend made up
PlanActions == {"search", "answer", "teleport"}

\* step.result: None, a list of rows, or a string; a list by its items and a
\* string by its pieces
NoStepResult == [type |-> "none", value |-> <<>>]

ListResult(items) == [type |-> "list", value |-> items]

StrResult(pieces) == [type |-> "str", value |-> pieces]

\* Python's truth value of a step result: None, [] and '' are false
Truthy(result) == result.type # "none" /\ result.value # <<>>

\* str(result): a string is itself, a list is printed in brackets
ToStr(result) ==
    IF result.type = "str" THEN result.value
    ELSE <<"[">> \o result.value \o <<"]">>

NoError == "None"

\* PlanStep(step_id, action, depends_on) with the dataclass defaults
PlanStep(step_id, action, depends_on) ==
    [step_id |-> step_id, action |-> action, depends_on |-> depends_on,
     status |-> "pending", result |-> NoStepResult, error |-> NoError]

TaskComplexity == {"simple", "moderate", "complex"}

\* What the planning backend answers: the call or json.loads raises, or a
\* list of steps by their action names
LLMPlanReplies ==
    {[ok |-> FALSE, actions |-> <<>>]} \cup
    {[ok |-> TRUE, actions |-> a] :
         a \in UNION {[1..n -> PlanActions] : n \in 0..MaxSteps}}

\* _generate_llm_plan: step i depends on step i - 1; one answer step when the
\* backend or the parse fails
generate_llm_plan(reply) ==
    IF reply.ok
    THEN [i \in 1..Len(reply.actions) |->
              PlanStep(i, reply.actions[i], IF i > 1 THEN {i - 1} ELSE {})]
    ELSE <<PlanStep(1, "answer", {})>>

\* _create_plan
create_plan(complexity, reply) ==
    CASE complexity = "simple" -> <<PlanStep(1, "answer", {})>>
      [] complexity = "moderate" ->
             <<PlanStep(1, "search", {}), PlanStep(2, "answer", {1})>>
      [] OTHER -> generate_llm_plan(reply)

\* The plans a caller builds by hand, as the tests do: any action names and
\* any depends_on lists over the step ids
PlanShapes == UNION {[1..n -> PlanActions \X (SUBSET StepIds)] : n \in 0..MaxSteps}

BuildPlan(shape) == [i \in 1..Len(shape) |-> PlanStep(i, shape[i][1], shape[i][2])]

\* Mutant of deps_complete: one completed dependency is enough
deps_complete_Any(steps, step) ==
    \E dep_id \in step.depends_on :
        dep_id <= Len(steps) /\ steps[dep_id].status = "completed"

\* "all(plan.steps[dep_id - 1].status == "completed" for dep_id in
\*  step.depends_on if dep_id <= len(plan.steps))"
deps_complete(steps, step) ==
    \A dep_id \in step.depends_on :
        dep_id <= Len(steps) => steps[dep_id].status = "completed"

Raised == [raised |-> TRUE, result |-> NoStepResult]

Returned(result) == [raised |-> FALSE, result |-> result]

\* _execute_step, by action: what it returns, or that it raises
execute_step(action) ==
    CASE action \in {"search", "semantic_search", "get_entities"} ->
             {Raised, Returned(ListResult(<<>>)), Returned(ListResult(<<"row">>))}
      [] action \in {"summarize", "answer"} ->
             {Raised, Returned(StrResult(<<>>)), Returned(StrResult(<<"text">>))}
      [] action = "list_files" -> {Raised}
      [] action = "open_file" ->
             {Returned(StrResult(<<"Would open file: ", " (requires approval)">>))}
      [] OTHER -> {Returned(StrResult(<<"Unknown action: ", action>>))}

Completed(step) == step.status = "completed"

\* The loop of _generate_response over reversed(plan.steps), from step i down
RECURSIVE FindAnswerStep(_, _, _)
FindAnswerStep(steps, i, answer_step) ==
    IF i = 0 THEN answer_step
    ELSE IF steps[i].action = "answer" /\ Completed(steps[i]) THEN i
    ELSE IF Completed(steps[i]) THEN FindAnswerStep(steps, i - 1, i)
    ELSE FindAnswerStep(steps, i - 1, answer_step)

NotEnoughInformation ==
    <<"I wasn't able to find enough information to answer your request.">>

HasResult(step) == Truthy(step.result)

\* _generate_response
generate_response(steps) ==
    LET answer_step == FindAnswerStep(steps, Len(steps), 0)
        results == SelectSeq(steps, HasResult)
    IN  IF answer_step # 0 /\ Truthy(steps[answer_step].result)
        THEN ToStr(steps[answer_step].result)
        ELSE IF results # <<>>
             THEN <<"Based on my analysis: ">> \o ToStr(results[1].result)
             ELSE NotEnoughInformation

\* "Determine overall status"
overall_status(steps) ==
    IF \A i \in DOMAIN steps : Completed(steps[i]) THEN "completed"
    ELSE IF \E i \in DOMAIN steps : steps[i].status = "failed" THEN "partial"
    ELSE "completed"

NoResponse == <<"None">>

InitOrch ==
    /\ plan_steps = <<>>
    /\ plan_status = "planning"
    /\ orch_pc = "idle"
    /\ orch_i = 0
    /\ response = NoResponse

\* process, steps 3 and 4 up to the loop: _create_plan, then _execute_plan
\* sets the plan executing
CreatePlan(complexity, reply) ==
    /\ orch_pc = "idle"
    /\ plan_steps' = create_plan(complexity, reply)
    /\ plan_status' = "executing"
    /\ orch_i' = 1
    /\ orch_pc' = "loop"
    /\ UNCHANGED response
    /\ UNCHANGED notOrch

\* _execute_plan called on a plan built by hand
ExecutePlan(shape) ==
    /\ orch_pc = "idle"
    /\ plan_steps' = BuildPlan(shape)
    /\ plan_status' = "executing"
    /\ orch_i' = 1
    /\ orch_pc' = "loop"
    /\ UNCHANGED response
    /\ UNCHANGED notOrch

\* One turn of the loop up to the await: the dependency check
CheckDependencies ==
    /\ orch_pc = "loop"
    /\ orch_i <= Len(plan_steps)
    /\ IF deps_complete(plan_steps, plan_steps[orch_i])
       THEN /\ plan_steps' = [plan_steps EXCEPT ![orch_i].status = "running"]
            /\ orch_pc' = "step"
            /\ UNCHANGED orch_i
       ELSE /\ plan_steps' = [plan_steps EXCEPT ![orch_i].status = "failed",
                                                ![orch_i].error = "Dependencies not met"]
            /\ orch_i' = orch_i + 1
            /\ UNCHANGED orch_pc
    /\ UNCHANGED <<plan_status, response>>
    /\ UNCHANGED notOrch

\* "result = await self._execute_step(step, plan)" and what follows it
ExecuteStep(outcome) ==
    /\ orch_pc = "step"
    /\ outcome \in execute_step(plan_steps[orch_i].action)
    /\ plan_steps' =
           IF outcome.raised
           THEN [plan_steps EXCEPT ![orch_i].status = "failed",
                                   ![orch_i].error = "str(e)"]
           ELSE [plan_steps EXCEPT ![orch_i].status = "completed",
                                   ![orch_i].result = outcome.result]
    /\ orch_i' = orch_i + 1
    /\ orch_pc' = "loop"
    /\ UNCHANGED <<plan_status, response>>
    /\ UNCHANGED notOrch

\* The loop is over: the overall status
FinishPlan ==
    /\ orch_pc = "loop"
    /\ orch_i > Len(plan_steps)
    /\ plan_status' = overall_status(plan_steps)
    /\ orch_pc' = "response"
    /\ UNCHANGED <<plan_steps, orch_i, response>>
    /\ UNCHANGED notOrch

\* process, step 5
GenerateResponse ==
    /\ orch_pc = "response"
    /\ response' = generate_response(plan_steps)
    /\ orch_pc' = "done"
    /\ UNCHANGED <<plan_steps, plan_status, orch_i>>
    /\ UNCHANGED notOrch

-----------------------------------------------------------------------------
(* The run loops of the capture daemons: run() and stop() of ClipboardMonitor, *)
(* ScreenCapture and FileWatcher                                               *)

\* Rows a daemon's loop may commit in a run
MaxLoopRows == 2

Daemons == {"clipboard", "screen", "files"}

\* What one capture_once call finds before it writes: nothing to store (an
\* empty or unchanged observation), an exception while reading or processing,
\* or an observation to store. The file watcher's loop only sleeps: its
\* observations are made by the observer thread.
PollOutcomes(d) ==
    IF d = "files" THEN {"nothing"} ELSE {"nothing", "error", "store"}

\* Mutant of after_failure: the exception leaves run()
after_failure_Propagates == "exited"

\* "except Exception as e: print(...)", then the sleep of the same iteration
after_failure == "sleep"

\* Mutant of stop: the loop's task is cut where it is
stop_Cancels(pc) == IF pc = "off" THEN "off" ELSE "exited"

\* stop(): "self.running = False" leaves the loop where it is
stop(pc) == pc

InitLoops ==
    /\ daemon_pc = [d \in Daemons |-> "off"]
    /\ daemon_running = [d \in Daemons |-> FALSE]
    /\ daemon_rows = [d \in Daemons |-> 0]
    /\ daemon_last = [d \in Daemons |-> "none"]

\* run() up to the first test of "while self.running"
DaemonRun(d) ==
    /\ daemon_pc[d] \in {"off", "exited"}
    /\ daemon_running' = [daemon_running EXCEPT ![d] = TRUE]
    /\ daemon_pc' = [daemon_pc EXCEPT ![d] = "poll"]
    /\ UNCHANGED <<daemon_rows, daemon_last>>
    /\ UNCHANGED notLoops

\* capture_once up to its store call
DaemonPoll(d, outcome) ==
    /\ daemon_pc[d] = "poll"
    /\ outcome \in PollOutcomes(d)
    /\ outcome = "store" => daemon_rows[d] < MaxLoopRows
    /\ daemon_pc' = [daemon_pc EXCEPT ![d] =
                        CASE outcome = "store" -> "write"
                          [] outcome = "error" -> after_failure
                          [] OTHER -> "sleep"]
    /\ daemon_last' = [daemon_last EXCEPT ![d] =
                          CASE outcome = "store" -> "storing"
                            [] outcome = "error" -> "dropped"
                            [] OTHER -> "none"]
    /\ UNCHANGED <<daemon_running, daemon_rows>>
    /\ UNCHANGED notLoops

\* The store call of capture_once: the row is committed, or the write raises
DaemonWrite(d, store_ok) ==
    /\ daemon_pc[d] = "write"
    /\ IF store_ok
       THEN /\ daemon_rows' = [daemon_rows EXCEPT ![d] = @ + 1]
            /\ daemon_last' = [daemon_last EXCEPT ![d] = "stored"]
            /\ daemon_pc' = [daemon_pc EXCEPT ![d] = "sleep"]
       ELSE /\ daemon_last' = [daemon_last EXCEPT ![d] = "dropped"]
            /\ daemon_pc' = [daemon_pc EXCEPT ![d] = after_failure]
            /\ UNCHANGED daemon_rows
    /\ UNCHANGED daemon_running
    /\ UNCHANGED notLoops

\* "await asyncio.sleep(interval)" returns and "while self.running" is tested
DaemonWake(d) ==
    /\ daemon_pc[d] = "sleep"
    /\ daemon_pc' = [daemon_pc EXCEPT ![d] =
                        IF daemon_running[d] THEN "poll" ELSE "exited"]
    /\ UNCHANGED <<daemon_running, daemon_rows, daemon_last>>
    /\ UNCHANGED notLoops

\* stop(), from a caller outside the loop, wherever the loop is
DaemonStop(d) ==
    /\ daemon_running[d]
    /\ daemon_running' = [daemon_running EXCEPT ![d] = FALSE]
    /\ daemon_pc' = [daemon_pc EXCEPT ![d] = stop(@)]
    /\ UNCHANGED <<daemon_rows, daemon_last>>
    /\ UNCHANGED notLoops

-----------------------------------------------------------------------------
(* The dashboard's relationship graph: get_relationships *)

\* Rows that table entities may hold
MaxEntityRows == 3

\* Records the mentions come from
MaxRecords == 2

\* "LIMIT ?" is bound to limit * 10
RowsPerNode == 10

\* "edges_list[:100]"
EdgeCap == 100

\* Entity texts, in the order sorted() puts them
EntityNames == <<"Acme", "Alice">>

NameRank(name) == CHOOSE r \in DOMAIN EntityNames : EntityNames[r] = name

\* "tuple(sorted([e1_text, e2_text]))"
EdgeKey(e1, e2) == IF NameRank(e1) <= NameRank(e2) THEN <<e1, e2>> ELSE <<e2, e1>>

\* The first min(n, Len(seq)) items of seq: seq[:n]
FirstItems(seq, n) == SubSeq(seq, 1, IF n <= Len(seq) THEN n ELSE Len(seq))

\* The items of seq, each at its first place only
Distinct(seq) ==
    LET First(k) == \A m \in 1..(k - 1) : seq[m] # seq[k]
        places == SelectSeq([k \in DOMAIN seq |-> k], First)
    IN  [k \in DOMAIN places |-> seq[places[k]]]

\* "Find co-occurrences": the edge key of every pair of rows i < j of one
\* content_id, in the order the loops meet them
Cooccurrences(rows) ==
    LET n == Len(rows)
        all == [k \in 1..(n * n) |-> <<((k - 1) \div n) + 1, ((k - 1) % n) + 1>>]
        Pair(p) == p[1] < p[2] /\ rows[p[1]].content_id = rows[p[2]].content_id
        pairs == SelectSeq(all, Pair)
    IN  [k \in DOMAIN pairs |->
             EdgeKey(rows[pairs[k][1]].entity_text, rows[pairs[k][2]].entity_text)]

\* nodes: a node an entity text in the order of first mention, its count the
\* number of rows
Nodes(rows) ==
    LET texts == Distinct([k \in DOMAIN rows |-> rows[k].entity_text])
    IN  [k \in DOMAIN texts |->
             [id |-> texts[k],
              count |-> Cardinality({r \in DOMAIN rows : rows[r].entity_text = texts[k]})]]

\* sorted(nodes_list, key=count, reverse=True): a stable sort
SortByCount(nodes) ==
    LET Before(m, k) == \/ nodes[m].count > nodes[k].count
                        \/ nodes[m].count = nodes[k].count /\ m < k
        Place(k) == Cardinality({m \in DOMAIN nodes : Before(m, k)}) + 1
    IN  [r \in DOMAIN nodes |-> nodes[CHOOSE k \in DOMAIN nodes : Place(k) = r]]

\* get_relationships(limit)
get_relationships(table, limit) ==
    LET rows == FirstItems(table, limit * RowsPerNode)
        keys == Cooccurrences(rows)
        edge_keys == Distinct(keys)
        edges_list == [k \in DOMAIN edge_keys |->
                          [source |-> edge_keys[k][1], target |-> edge_keys[k][2],
                           weight |-> Cardinality({m \in DOMAIN keys :
                                                      keys[m] = edge_keys[k]})]]
        nodes_list == FirstItems(SortByCount(Nodes(rows)), limit)
        node_ids == {nodes_list[k].id : k \in DOMAIN nodes_list}
        Kept(e) == e.source \in node_ids /\ e.target \in node_ids
    IN  [nodes |-> nodes_list, edges |-> FirstItems(SelectSeq(edges_list, Kept), EdgeCap)]

NoGraph == [nodes |-> <<>>, edges |-> <<>>]

InitDash ==
    /\ rel_entities = <<>>
    /\ rel_out = NoGraph

\* A record's entity extraction inserts one row for a mention
InsertEntity(content_id, entity_text) ==
    /\ Len(rel_entities) < MaxEntityRows
    /\ rel_entities # <<>> => rel_entities[Len(rel_entities)].content_id <= content_id
    /\ rel_entities' = Append(rel_entities,
                              [content_id |-> content_id, entity_text |-> entity_text])
    /\ rel_out' = NoGraph
    /\ UNCHANGED notDash

\* GET /api/relationships?limit=
GetRelationships(limit) ==
    /\ rel_out' = get_relationships(rel_entities, limit)
    /\ UNCHANGED rel_entities
    /\ UNCHANGED notDash

-----------------------------------------------------------------------------
(* The action executor: format check, permission check, dispatch, events *)

\* Calls of execute that are made
MaxExecutions == 2

\* "levels" of _check_permission, lowest first
levels == <<"safe", "user-approved", "admin">>

LevelIndex(level) == CHOOSE k \in DOMAIN levels : levels[k] = level

\* The categories that have a tool
ToolCategories == {"file", "desktop", "browser"}

\* PERMISSION_REQUIREMENTS.get(action_type, "admin")
PERMISSION_REQUIREMENTS(category) ==
    CASE category = "file" -> "safe"
      [] category = "desktop" -> "user-approved"
      [] category = "browser" -> "safe"
      [] OTHER -> "admin"

\* Mutant of _check_permission: every level may run every category
check_permission_Open(level, category) == TRUE

\* _check_permission
check_permission(level, category) ==
    LevelIndex(level) >= LevelIndex(PERMISSION_REQUIREMENTS(category))

\* The action types asked for, each as its pieces between the dots
ActionTypes ==
    {<<"invalid">>, <<"">>, <<"file", "create_file">>, <<"file", "no_such">>,
     <<"desktop", "click">>, <<"browser", "goto">>, <<"shell", "run">>,
     <<"file", "a", "b">>}

\* action_type.split(".", 1): the first piece and, if there is one, the rest
split_once(pieces) ==
    IF Len(pieces) = 1 THEN <<pieces[1]>> ELSE <<pieces[1], Tail(pieces)>>

\* How _dispatch can end for a category and method: a tool's handler returns or
\* raises; an unknown method and an unknown category raise ValueError
DispatchOutcomes(category, method) ==
    IF category \notin ToolCategories THEN {"raised"}
    ELSE IF method \in {<<"create_file">>, <<"click">>, <<"goto">>}
         THEN {"returned", "raised"}
         ELSE {"raised"}

\* Mutant of on_exception: the exception is passed on with no event
on_exception_Silent == <<>>

\* "except Exception": what is published before the exception is raised again
on_exception == <<"action.failed">>

NoAction == [call |-> 0, category |-> "", method |-> <<>>]

ExecutorFresh ==
    /\ exec_pc = "idle"
    /\ exec_cur = NoAction
    /\ exec_calls = 0
    /\ published = <<>>
    /\ tool_calls = <<>>
    /\ exec_result = "none"

\* ActionExecutor(): permission_level defaults to "safe"
InitExec ==
    /\ permission_level = "safe"
    /\ ExecutorFresh

\* execute up to its await of _dispatch: the format check, the permission
\* check and the start event
ExecuteStart(pieces) ==
    /\ exec_pc = "idle"
    /\ exec_calls < MaxExecutions
    /\ exec_calls' = exec_calls + 1
    /\ LET parts == split_once(pieces)
       IN  IF Len(parts) # 2
           THEN /\ exec_result' = "ValueError"
                /\ UNCHANGED <<exec_pc, exec_cur, published>>
           ELSE IF ~check_permission(permission_level, parts[1])
           THEN /\ exec_result' = "PermissionError"
                /\ UNCHANGED <<exec_pc, exec_cur, published>>
           ELSE /\ published' = Append(published,
                                       [call |-> exec_calls', event |-> "action.started"])
                /\ exec_cur' = [call |-> exec_calls', category |-> parts[1],
                                method |-> parts[2]]
                /\ exec_pc' = "dispatch"
                /\ exec_result' = "running"
    /\ UNCHANGED <<permission_level, tool_calls>>
    /\ UNCHANGED notExec

\* _dispatch: the call is routed to the category's tool and ends
Dispatch(outcome) ==
    /\ exec_pc = "dispatch"
    /\ outcome \in DispatchOutcomes(exec_cur.category, exec_cur.method)
    /\ tool_calls' = IF exec_cur.category \in ToolCategories
                     THEN Append(tool_calls, [call |-> exec_cur.call,
                                              category |-> exec_cur.category])
                     ELSE tool_calls
    /\ exec_pc' = outcome
    /\ UNCHANGED <<permission_level, exec_cur, exec_calls, published, exec_result>>
    /\ UNCHANGED notExec

\* execute after _dispatch: the completion event and the return, or the
\* except clause
ExecuteEnd ==
    /\ exec_pc \in {"returned", "raised"}
    /\ published' = IF exec_pc = "returned"
                    THEN Append(published,
                                [call |-> exec_cur.call, event |-> "action.completed"])
                    ELSE published \o [k \in DOMAIN on_exception |->
                                          [call |-> exec_cur.call,
                                           event |-> on_exception[k]]]
    /\ exec_result' = exec_pc
    /\ exec_pc' = "idle"
    /\ exec_cur' = NoAction
    /\ UNCHANGED <<permission_level, exec_calls, tool_calls>>
    /\ UNCHANGED notExec

-----------------------------------------------------------------------------
(* The user manager's sessions: create, validate, invalidate *)

\* Users that are created
MaxUsers == 2

\* Sessions that are created
MaxSessions == 2

\* The last value of the clock
MaxAuthClock == 2

\* duration_hours of create_session: none, or one step of the clock
Durations == {0, 1}

\* validate_session returned None
NoUser == [id |-> 0, email |-> 0]

\* Mutant of Unexpired: the expiry time is not looked at
Unexpired_Always(expires_at, now) == TRUE

\* "s.expires_at > ?" with datetime.utcnow()
Unexpired(expires_at, now) == expires_at > now

\* "SELECT s.*, u.* ... JOIN users u ON s.user_id = u.id WHERE s.token = ?
\*  AND s.expires_at > ?": row["id"] is the first column of that name, the
\* session's; a user's email stands for the user
validate_session(token) ==
    LET rows == {s \in sessions : /\ s.token = token
                                  /\ Unexpired(s.expires_at, auth_clock)
                                  /\ s.user_id \in auth_users}
    IN  IF rows = {} THEN NoUser
        ELSE LET row == CHOOSE s \in rows : TRUE
             IN  [id |-> row.id, email |-> row.user_id]

InitAuth ==
    /\ auth_users = {}
    /\ sessions = {}
    /\ session_seq = 0
    /\ auth_clock = 0
    /\ auth_last = [op |-> "none", token |-> 0, user |-> NoUser]
    /\ invalidated = {}

\* create_user
CreateUser ==
    /\ Cardinality(auth_users) < MaxUsers
    /\ auth_users' = auth_users \union {Cardinality(auth_users) + 1}
    /\ UNCHANGED <<sessions, session_seq, auth_clock, auth_last, invalidated>>
    /\ UNCHANGED notAuth

\* create_session: a fresh token, expires_at = utcnow() + duration
CreateSession(user_id, duration) ==
    /\ session_seq < MaxSessions
    /\ session_seq' = session_seq + 1
    /\ sessions' = sessions \union {[id |-> session_seq', user_id |-> user_id,
                                     token |-> session_seq',
                                     expires_at |-> auth_clock + duration]}
    /\ UNCHANGED <<auth_users, auth_clock, auth_last, invalidated>>
    /\ UNCHANGED notAuth

\* validate_session(token)
ValidateSession(token) ==
    /\ auth_last' = [op |-> "validate", token |-> token,
                     user |-> validate_session(token)]
    /\ UNCHANGED <<auth_users, sessions, session_seq, auth_clock, invalidated>>
    /\ UNCHANGED notAuth

\* invalidate_session(token): DELETE FROM sessions WHERE token = ?
InvalidateSession(token) ==
    /\ sessions' = {s \in sessions : s.token # token}
    /\ invalidated' = invalidated \union {s.token : s \in sessions \ sessions'}
    /\ UNCHANGED <<auth_users, session_seq, auth_clock, auth_last>>
    /\ UNCHANGED notAuth

\* invalidate_all_sessions(user_id): DELETE FROM sessions WHERE user_id = ?
InvalidateAllSessions(user_id) ==
    /\ sessions' = {s \in sessions : s.user_id # user_id}
    /\ invalidated' = invalidated \union {s.token : s \in sessions \ sessions'}
    /\ UNCHANGED <<auth_users, session_seq, auth_clock, auth_last>>
    /\ UNCHANGED notAuth

\* cleanup_expired_sessions: DELETE FROM sessions WHERE expires_at < ?
CleanupExpiredSessions ==
    /\ sessions' = {s \in sessions : ~(s.expires_at < auth_clock)}
    /\ UNCHANGED <<auth_users, session_seq, auth_clock, auth_last, invalidated>>
    /\ UNCHANGED notAuth

\* Time passes
AuthTick ==
    /\ auth_clock < MaxAuthClock
    /\ auth_clock' = auth_clock + 1
    /\ UNCHANGED <<auth_users, sessions, session_seq, auth_last, invalidated>>
    /\ UNCHANGED notAuth

-----------------------------------------------------------------------------
(* The onboarding manager: steps, device and extension registration *)

\* Devices a user registers
MaxDevices == 2

\* Extensions a user registers
MaxExtensions == 2

\* OnboardingStep
OnboardingStep == {"signup", "email_verified", "desktop_downloaded",
                   "desktop_installed", "extension_installed", "completed"}

\* No row of onboarding_state for the user
NoOnboarding ==
    [present |-> FALSE, current_step |-> "signup", email_verified |-> FALSE,
     desktop_downloaded |-> FALSE, desktop_installed |-> FALSE,
     extension_installed |-> FALSE, completed_at |-> FALSE]

\* create_onboarding: INSERT OR IGNORE of a row at step 'signup'
create_onboarding(row) ==
    IF row.present THEN row ELSE [NoOnboarding EXCEPT !.present = TRUE]

\* update_step: the UPDATE of current_step and of the step's flag, which
\* changes nothing when the user has no row, then get_onboarding_state, which
\* creates the row that is missing
update_step(row, step) ==
    IF ~row.present THEN create_onboarding(row)
    ELSE [row EXCEPT
            !.current_step = step,
            !.email_verified = @ \/ step = "email_verified",
            !.desktop_downloaded = @ \/ step = "desktop_downloaded",
            !.desktop_installed = @ \/ step = "desktop_installed",
            !.extension_installed = @ \/ step = "extension_installed",
            !.completed_at = @ \/ step = "completed"]

\* register_device after its INSERT: update_step(DESKTOP_INSTALLED)
after_device(row) == update_step(row, "desktop_installed")

\* register_extension after its INSERT: update_step(EXTENSION_INSTALLED), then
\* "Check if onboarding is complete"
after_extension(row) ==
    LET state == update_step(row, "extension_installed")
    IN  IF state.desktop_installed /\ state.extension_installed
        THEN update_step(state, "completed") ELSE state

InitOnb ==
    /\ onb_row = NoOnboarding
    /\ onb_devices = 0
    /\ onb_extensions = 0

\* create_onboarding(user_id)
CreateOnboarding ==
    /\ onb_row' = create_onboarding(onb_row)
    /\ UNCHANGED <<onb_devices, onb_extensions>>
    /\ UNCHANGED notOnb

\* mark_email_verified, and validate_download_token of a valid token
UpdateStep(step) ==
    /\ step \in {"email_verified", "desktop_downloaded"}
    /\ onb_row' = update_step(onb_row, step)
    /\ UNCHANGED <<onb_devices, onb_extensions>>
    /\ UNCHANGED notOnb

\* register_device
RegisterDevice ==
    /\ onb_devices < MaxDevices
    /\ onb_devices' = onb_devices + 1
    /\ onb_row' = after_device(onb_row)
    /\ UNCHANGED onb_extensions
    /\ UNCHANGED notOnb

\* register_extension
RegisterExtension ==
    /\ onb_extensions < MaxExtensions
    /\ onb_extensions' = onb_extensions + 1
    /\ onb_row' = after_extension(onb_row)
    /\ UNCHANGED onb_devices
    /\ UNCHANGED notOnb

-----------------------------------------------------------------------------
(* The parts of the system a specification leaves as constructed *)

\* A store with its models and vector table loaded, and nothing stored
StoreIdle == InitStore /\ nlp = TRUE /\ embedding_model = TRUE /\ lance_table = TRUE

\* A screen capture in the default mode that has captured nothing
ScreenIdle == InitScreen /\ capture_config.mode = "primary"

\* A detector with every kind enabled that has been handed nothing
RedactIdle == InitRedact /\ enabled_types = {} /\ redact_in = <<>>

\* The capture daemons and the redactor, none of them started
CapturesIdle == InitFiles /\ InitClipboard /\ ScreenIdle /\ RedactIdle /\ InitOrch /\ InitLoops /\ InitDash
                     /\ InitExec
                     /\ InitAuth
                     /\ InitOnb

-----------------------------------------------------------------------------
(* The store with its callers *)

Limits == 1..MaxLimit

\* (source_type, source_id) of the add calls: the CLI's manual add without a
\* source row, and the mirror of clipboard_history row 1
AddRefs == { <<"manual", NoSourceId>>, <<"clipboard", 1>> }

\* add taken commit by commit, as a concurrent reader or a failure meets it
NextStore ==
    \/ \E content \in Texts, st \in {"manual", "clipboard"}, sid \in {NoSourceId, 1} :
         AddInsertRow(content, st, sid, 0)
    \/ AddStoreEntities
    \/ AddEntitiesRaise
    \/ \E encode_ok, write_ok \in BOOLEAN : AddStoreEmbedding(encode_ok, write_ok)

Init == InitStore /\ CapturesIdle

Spec == Init /\ [][NextStore]_vars

\* Entity extraction plays no part in sync and retrieval: the spaCy model is loaded
InitLoaded == InitStore /\ nlp = TRUE

\* The source tables, add and sync_from_captures (no embedder or LanceDB
\* exception here: those are taken in Spec)
NextSync ==
    \/ \E t \in SourceTableNames : InitSourceTable(t)
    \/ \E t \in SourceTableNames : \E text \in SourceTexts(t) : SourceInsert(t, text)
    \/ \E content \in Texts, ref \in AddRefs : Add(content, ref[1], ref[2], 0, TRUE, TRUE)
    \/ SyncFromCaptures(0, TRUE, TRUE)

\* Sync does not read the embedder: the sentence-transformers model is loaded
InitSync == InitLoaded /\ embedding_model = TRUE

InitSpecSync == InitSync /\ CapturesIdle

SpecSync == InitSpecSync /\ [][NextSync]_vars

\* The store read by search, semantic_search and RAGEngine.query
NextRetrieval ==
    \/ \E content \in Texts, st \in {"manual", "clipboard"}, tick \in {0, 1},
          encode_ok, write_ok \in BOOLEAN :
         Add(content, st, NoSourceId, tick, encode_ok, write_ok)
    \/ \E q \in Queries, st \in {NoSourceType, "clipboard"}, limit \in Limits :
         Search(q, st, limit)
    \/ \E q \in Queries, limit \in Limits : SemanticSearch(q, limit)
    \/ \E q \in Queries, limit \in Limits, llm_ok \in BOOLEAN : RagQuery(q, limit, llm_ok)
    \/ Return

InitSpecRetrieval == InitLoaded /\ CapturesIdle

SpecRetrieval == InitSpecRetrieval /\ [][NextRetrieval]_vars

\* The events each handler thread delivers: the first every operation on one
\* file and the edits of another, the second edits only
DeliveredTo(t) ==
    IF t = 1
    THEN {<<"/notes/a.txt", op>> : op \in FileOperation} \cup {<<"/notes/b.md", "modified">>}
    ELSE {<<p, "modified">> : p \in FilePaths}

\* Room for one more event: rows written and calls in flight stay below the
\* bounds
FilesWithin(operation, max_events, max_versions) ==
    /\ Len(file_history) + Cardinality(InFlight) < max_events
    /\ StoresVersion(operation) =>
           Len(file_versions) + Cardinality(InFlight) < max_versions

\* The watcher's handlers, each process_file call taken database call by
\* database call
NextFiles ==
    \/ \E t \in Handlers : \E e \in DeliveredTo(t), content_hash \in FileHashes,
                               extract_ok \in BOOLEAN :
         /\ FilesWithin(e[2], MaxFileEvents, MaxFileVersions)
         /\ ProcessFile(t, e[1], e[2], content_hash, extract_ok)
    \/ \E t \in Handlers : GetVersionNumber(t)
    \/ \E t \in Handlers, locked \in BOOLEAN : StoreVersion(t, locked)
    \/ \E t \in Handlers, locked \in BOOLEAN : StoreEvent(t, locked)

InitSpecFiles == StoreIdle /\ InitFiles /\ InitClipboard /\ ScreenIdle /\ RedactIdle
                     /\ InitOrch /\ InitLoops /\ InitDash
                     /\ InitExec
                     /\ InitAuth
                     /\ InitOnb

SpecFiles == InitSpecFiles /\ [][NextFiles]_vars

\* One handler and one path: the events of a single file, one after the
\* other, over a longer history
MaxChainEvents == 4

ChainHandler == 1

ChainPath == "/notes/a.txt"

NextFileChain ==
    \/ \E operation \in FileOperation, content_hash \in FileHashes,
          extract_ok \in BOOLEAN :
         /\ FilesWithin(operation, MaxChainEvents, MaxChainEvents)
         /\ ProcessFile(ChainHandler, ChainPath, operation, content_hash, extract_ok)
    \/ GetVersionNumber(ChainHandler)
    \/ \E locked \in BOOLEAN : StoreVersion(ChainHandler, locked)
    \/ \E locked \in BOOLEAN : StoreEvent(ChainHandler, locked)

InitSpecFileChain == StoreIdle /\ InitFiles /\ InitClipboard /\ ScreenIdle /\ RedactIdle
                     /\ InitOrch /\ InitLoops /\ InitDash
                     /\ InitExec
                     /\ InitAuth
                     /\ InitOnb

SpecFileChain == InitSpecFileChain /\ [][NextFileChain]_vars

\* The clipboard, the polling loop and the monitor's life cycle
NextClipboard ==
    \/ \E content \in ClipContents : Copy(content)
    \/ \E paste_ok, store_ok \in BOOLEAN : CaptureOnce(paste_ok, store_ok)
    \/ ClipRun
    \/ ClipStop
    \/ ClipNewMonitor

InitSpecClipboard == StoreIdle /\ InitFiles /\ InitClipboard /\ ScreenIdle /\ RedactIdle
                     /\ InitOrch /\ InitLoops /\ InitDash
                     /\ InitExec
                     /\ InitAuth
                     /\ InitOnb

SpecClipboard == InitSpecClipboard /\ [][NextClipboard]_vars

\* The monitors' contents and the capture loop; a cycle makes at most one
\* _store_capture call a monitor, and any one of them may raise
NextScreen ==
    \/ \E i \in Monitors, frame \in Frames : ScreenChange(i, frame)
    \/ \E fail_at \in 0..MonitorCount : ScreenCaptureOnce(fail_at)

\* A screen capture constructed in any of its configurations
InitSpecScreen == StoreIdle /\ InitFiles /\ InitClipboard /\ InitScreen /\ RedactIdle
                      /\ InitOrch /\ InitLoops /\ InitDash
                     /\ InitExec
                     /\ InitAuth
                     /\ InitOnb

SpecScreen == InitSpecScreen /\ [][NextScreen]_vars

\* A text handed through redact again and again
NextRedact == Redact

\* A detector constructed with any enabled_types, and any text
InitSpecRedact == StoreIdle /\ InitFiles /\ InitClipboard /\ ScreenIdle /\ InitRedact
                      /\ InitOrch /\ InitLoops /\ InitDash
                     /\ InitExec
                     /\ InitAuth
                     /\ InitOnb

SpecRedact == InitSpecRedact /\ [][NextRedact]_vars

\* The outcomes a step can have, whatever its action
StepOutcomes == UNION {execute_step(action) : action \in PlanActions}

\* The orchestrator on the plans it creates and on plans built by hand
NextOrch ==
    \/ /\ orch_pc = "idle"
       /\ \E complexity \in TaskComplexity, reply \in LLMPlanReplies :
            CreatePlan(complexity, reply)
    \/ /\ orch_pc = "idle"
       /\ \E shape \in PlanShapes : ExecutePlan(shape)
    \/ CheckDependencies
    \/ /\ orch_pc = "step"
       /\ \E outcome \in StepOutcomes : ExecuteStep(outcome)
    \/ FinishPlan
    \/ GenerateResponse

InitSpecOrch == StoreIdle /\ InitFiles /\ InitClipboard /\ ScreenIdle /\ RedactIdle
                     /\ InitOrch /\ InitLoops /\ InitDash
                     /\ InitExec
                     /\ InitAuth
                     /\ InitOnb

SpecOrch == InitSpecOrch /\ [][NextOrch]_vars

\* The daemons' loops with their callers
NextLoops ==
    \/ \E d \in Daemons : DaemonRun(d)
    \/ \E d \in Daemons, outcome \in {"nothing", "error", "store"} : DaemonPoll(d, outcome)
    \/ \E d \in Daemons, store_ok \in BOOLEAN : DaemonWrite(d, store_ok)
    \/ \E d \in Daemons : DaemonWake(d)
    \/ \E d \in Daemons : DaemonStop(d)

InitSpecLoops == StoreIdle /\ InitFiles /\ InitClipboard /\ ScreenIdle /\ RedactIdle
                     /\ InitOrch /\ InitLoops /\ InitDash
                     /\ InitExec
                     /\ InitAuth
                     /\ InitOnb

SpecLoops == InitSpecLoops /\ [][NextLoops]_vars

\* The event loop runs every loop that can take a step: a capture_once call
\* returns and a sleep ends
LoopsFairness ==
    \A d \in Daemons :
        /\ WF_vars(\E outcome \in PollOutcomes(d) : DaemonPoll(d, outcome))
        /\ WF_vars(\E store_ok \in BOOLEAN : DaemonWrite(d, store_ok))
        /\ WF_vars(DaemonWake(d))

SpecLoopsFair == InitSpecLoops /\ [][NextLoops]_vars /\ LoopsFairness

\* Records whose entities are extracted, and the dashboard asking for the graph
NextDash ==
    \/ \E content_id \in 1..MaxRecords, r \in DOMAIN EntityNames :
         InsertEntity(content_id, EntityNames[r])
    \/ \E limit \in 1..2 : GetRelationships(limit)

InitSpecDash == StoreIdle /\ InitFiles /\ InitClipboard /\ ScreenIdle /\ RedactIdle
                     /\ InitOrch /\ InitLoops /\ InitDash
                     /\ InitExec
                     /\ InitAuth
                     /\ InitOnb

SpecDash == InitSpecDash /\ [][NextDash]_vars

\* An executor of any permission level and its callers
NextExec ==
    \/ /\ exec_pc = "idle"
       /\ \E pieces \in ActionTypes : ExecuteStart(pieces)
    \/ \E outcome \in {"returned", "raised"} : Dispatch(outcome)
    \/ ExecuteEnd

InitSpecExec == StoreIdle /\ InitFiles /\ InitClipboard /\ ScreenIdle /\ RedactIdle
                     /\ InitOrch /\ InitLoops /\ InitDash
                     /\ permission_level \in {levels[k] : k \in DOMAIN levels}
                     /\ ExecutorFresh
                     /\ InitAuth
                     /\ InitOnb
                     /\ InitOnb

SpecExec == InitSpecExec /\ [][NextExec]_vars

\* _dispatch ends and execute goes on after it
ExecFairness == WF_vars(\E outcome \in {"returned", "raised"} : Dispatch(outcome))
                    /\ WF_vars(ExecuteEnd)

SpecExecFair == InitSpecExec /\ [][NextExec]_vars /\ ExecFairness

\* The user manager with its callers; a user id or token asked for need not exist
NextAuth ==
    \/ CreateUser
    \/ /\ session_seq < MaxSessions
       /\ \E user_id \in 1..MaxUsers, duration \in Durations :
              CreateSession(user_id, duration)
    \/ \E token \in 1..MaxSessions : ValidateSession(token)
    \/ \E token \in 1..MaxSessions : InvalidateSession(token)
    \/ \E user_id \in 1..MaxUsers : InvalidateAllSessions(user_id)
    \/ CleanupExpiredSessions
    \/ AuthTick

InitSpecAuth == StoreIdle /\ InitFiles /\ InitClipboard /\ ScreenIdle /\ RedactIdle
                     /\ InitOrch /\ InitLoops /\ InitDash
                     /\ InitExec
                     /\ InitAuth
                     /\ InitOnb

SpecAuth == InitSpecAuth /\ [][NextAuth]_vars

\* One user's way through the onboarding
NextOnb ==
    \/ CreateOnboarding
    \/ \E step \in {"email_verified", "desktop_downloaded"} : UpdateStep(step)
    \/ RegisterDevice
    \/ RegisterExtension

InitSpecOnb == StoreIdle /\ InitFiles /\ InitClipboard /\ ScreenIdle /\ RedactIdle
                     /\ InitOrch /\ InitLoops /\ InitDash
                     /\ InitExec
                     /\ InitAuth
                     /\ InitOnb

SpecOnb == InitSpecOnb /\ [][NextOnb]_vars

-----------------------------------------------------------------------------
(* Claims about the store: C1, C6 and C17 under SpecSync, C5 and C9 under
   Spec *)

\* C1: at most one ContentRecord exists for each (source, source_ref) pair with a
\* non-null source_ref, after any sequence of add and sync_from_captures calls.
C1_UniqueSourceRef ==
    \A i, j \in DOMAIN semantic_content :
        ( /\ i # j
          /\ semantic_content[i].source_id # NoSourceId
          /\ semantic_content[i].source_type = semantic_content[j].source_type )
        => semantic_content[i].source_id # semantic_content[j].source_id

\* C5: every ContentRecord row visible in the database has its FTS row and the
\* entity mentions of its text: the three inserts take effect as one transaction.
C5_RowFtsEntitiesAtomic ==
    \A i \in DOMAIN semantic_content :
        /\ i \in semantic_content_fts
        /\ \A e \in Tokens(semantic_content[i].content) \cap NamedEntities :
             nlp => [content_id |-> i, entity_text |-> e] \in entities

\* Rows of semantic_content that a finished sync_from_captures call appended
C6_Appended == { i \in DOMAIN semantic_content : i > last.before }

C6_RecordsOf(ids, st, sid) ==
    { i \in ids : /\ semantic_content[i].source_type = st
                  /\ semantic_content[i].source_id = sid }

C6_SourceRows ==
    { <<st, sid>> \in {"screen", "clipboard", "file"} \X (1..(MaxSourceRows + 1)) :
        /\ source_tables[TableOf(st)] # Absent
        /\ sid <= Len(source_tables[TableOf(st)])
        /\ source_tables[TableOf(st)][sid] \notin {EmptyText, NullText} }

C6_SyncState ==
    last.op = "sync" =>
        /\ \A p \in C6_SourceRows :
             Cardinality(C6_RecordsOf(C6_Appended, p[1], p[2])) =
                 IF C6_RecordsOf(1..last.before, p[1], p[2]) # {} THEN 0 ELSE 1
        /\ \A i \in C6_Appended :
             /\ <<semantic_content[i].source_type, semantic_content[i].source_id>>
                    \in C6_SourceRows
             /\ semantic_content[i].content =
                    source_tables[TableOf(semantic_content[i].source_type)]
                                 [semantic_content[i].source_id]

C9_VectorWriteBestEffort ==
    /\ \A id \in lance_rows :
         id \in DOMAIN semantic_content /\ id \in semantic_content_fts
    /\ (last.op = "add" /\ last.path \in {"no_embedding", "write_failed"}) =>
         /\ ~last.raised
         /\ last.ret = <<add_cur.id>>
         /\ add_cur.id \in DOMAIN semantic_content
         /\ semantic_content[add_cur.id].content = add_cur.content
         /\ \A w \in Tokens(add_cur.content) :
              add_cur.id \in Matching([terms |-> {w}, syntax_ok |-> TRUE], NoSourceType)

\* C9 witness: an add of a non-empty text returned although the vector write failed.
C9_Witness ==
    /\ last.op = "add"
    /\ last.path = "write_failed"
    /\ add_cur.content # EmptyText
    /\ add_cur.id \notin lance_rows

\* C17: every ContentRecord has non-empty text after any sequence of
\* captures, add calls and syncs.
C17_RecordsNonEmpty ==
    \A k \in DOMAIN semantic_content : semantic_content[k].content # EmptyText

-----------------------------------------------------------------------------
(* Claims about retrieval: specification SpecRetrieval *)

\* C7: when the embedder or the vector index is unavailable, or the vector
\* lookup fails, semantic_search(query, limit) returns what search(query, limit)
\* returns for the same store state, and never raises.
C7_FallbackEqualsSearchNeverRaises ==
    (last.op = "semantic_search"
       /\ last.path \in {"no_table", "no_embedding", "lookup_failed"}) =>
        /\ ~last.raised
        /\ [raised |-> FALSE, ret |-> last.ret]
               \in search(last.q, NoSourceType, last.limit)

\* C8: when the backend call fails, RAGEngine.query returns the offline answer,
\* the rows retrieved for the query as context, and the balanced model's name.
C8_OfflineAnswerKeepsContext ==
    (last.op = "query" /\ last.llm = "failed") =>
        /\ ~last.raised
        /\ last.answer = "Local AI Offline"
        /\ last.ret = last.retrieved
        /\ last.model = DEFAULT_CONFIG["balanced"]

\* C8 witness: a query whose backend call failed after a row had been retrieved.
C8_Witness ==
    /\ last.op = "query"
    /\ last.llm = "failed"
    /\ Len(last.retrieved) >= 1

\* C21: in RAGEngine.query, whenever semantic_search for the query returns no
\* results, lexical search is called with the same query and limit and its
\* results are used as the context.
C21_LexicalFallbackInQuery ==
    (last.op = "query" /\ ~last.raised /\ last.retrieved = <<>>
                         /\ last.q.syntax_ok) =>
        \E r \in search(last.q, NoSourceType, last.limit) :
            ~r.raised /\ last.ret = r.ret

-----------------------------------------------------------------------------
(* Claims about the file watcher: C2, C14 and C16 under SpecFiles, C15 under
   SpecFileChain *)

\* C2: for every path, the versions recorded in file_versions are exactly
\* 1, 2, ..., k in insertion order, with no gap and no duplicate, also when
\* modified events for the same path are processed concurrently.
C2_VersionsGapless ==
    \A p \in FilePaths :
        LET vs == VersionsOf(file_versions, p)
        IN  \A i \in DOMAIN vs : vs[i].version = i

\* C2 witness: two handlers read the same next version for one path, one of
\* them stored it and the other was refused, and the path has two versions.
C2_Witness ==
    \E p \in FilePaths :
        /\ Len(VersionsOf(file_versions, p)) >= 2
        /\ \E t \in Handlers :
              /\ fw_cur[t].file_path = p
              /\ fw_cur[t].operation = "modified"
              /\ fw_cur[t].result = "error"
              /\ fw_cur[t].version \in 1..Len(VersionsOf(file_versions, p))

\* The file_versions row a handler's event stands for
C14_RowOf(e) ==
    [file_path |-> e.file_path, version |-> e.version, content_hash |-> e.content_hash]

\* C14: a FileVersion row is inserted only when a modified event is processed:
\* every step that changes file_versions appends the one row of a handler
\* processing a modified event, and a modified event that was processed to
\* its end has exactly one row.
C14_VersionOnlyOnModified ==
    [][/\ file_versions' # file_versions =>
              \E t \in Handlers :
                  /\ fw_cur[t].operation = "modified"
                  /\ fw_pc[t] = "insert"
                  /\ file_versions' = Append(file_versions, C14_RowOf(fw_cur[t]))
       /\ \A t \in Handlers :
              (fw_cur'[t].result = "stored" /\ fw_cur'[t].operation = "modified") =>
                  Cardinality({k \in DOMAIN file_versions' :
                                  file_versions'[k] = C14_RowOf(fw_cur'[t])}) = 1]_vars

\* C14 witness: a created (or deleted) event and a modified event were both
\* processed and stored, and file_versions holds one row.
C14_Witness ==
    /\ \E k \in DOMAIN file_history :
          file_history[k].operation \in {"created", "deleted"}
    /\ \E t \in Handlers :
          fw_cur[t].result = "stored" /\ fw_cur[t].operation = "modified"
    /\ Len(file_versions) = 1

\* The positions of file_history that hold an event of the path
C15_EventsOf(file_path) ==
    {k \in DOMAIN file_history : file_history[k].file_path = file_path}

\* The path was deleted and then created again, and no modified event of it
\* has been recorded since that create
C15_Recreated(file_path) ==
    \E d, c \in C15_EventsOf(file_path) :
        /\ d < c
        /\ file_history[d].operation = "deleted"
        /\ file_history[c].operation = "created"
        /\ \A k \in C15_EventsOf(file_path) :
               k > c => file_history[k].operation # "modified"

\* C15: after a path has been deleted and then created again, the next
\* modified event for that path is recorded as version 1: the version row
\* appended for a path in that situation carries version 1.
C15_RecreateRestartsChain ==
    [][\A t \in Handlers :
           (/\ fw_pc[t] = "insert"
            /\ file_versions' = Append(file_versions, C14_RowOf(fw_cur[t]))
            /\ C15_Recreated(fw_cur[t].file_path))
               => fw_cur[t].version = 1]_vars

\* C16: for every file path, no two FileVersion rows have the same
\* content_hash.
C16_NoRepeatedHashPerPath ==
    \A j, k \in DOMAIN file_versions :
        (/\ j # k
         /\ file_versions[j].file_path = file_versions[k].file_path)
            => file_versions[j].content_hash # file_versions[k].content_hash

\* C29: once no event is being processed, every file_versions row has a
\* stored modified file_history row of the same path and content hash, and
\* every stored modified event has its file_versions row, whatever failed
\* between the two writes and however the events interleaved.
C29_VersionsMatchModifiedEvents ==
    (\A t \in Handlers : fw_pc[t] = "idle") =>
        /\ \A j \in DOMAIN file_versions :
               \E k \in DOMAIN file_history :
                   /\ file_history[k].operation = "modified"
                   /\ file_history[k].file_path = file_versions[j].file_path
                   /\ file_history[k].content_hash = file_versions[j].content_hash
        /\ \A k \in DOMAIN file_history :
               file_history[k].operation = "modified" =>
                   \E j \in DOMAIN file_versions :
                       /\ file_versions[j].file_path = file_history[k].file_path
                       /\ file_versions[j].content_hash = file_history[k].content_hash

-----------------------------------------------------------------------------
(* Claims about the clipboard monitor: specification SpecClipboard *)

\* C3: no two consecutively inserted rows of clipboard_history have the same
\* content_hash, after any sequence of polls on one database, including
\* polls made by a monitor that was stopped and started again.
C3_NoConsecutiveDuplicateHash ==
    \A i \in 1..(Len(clipboard_history) - 1) :
        clipboard_history[i].content_hash # clipboard_history[i + 1].content_hash

\* C12: a poll drops the clipboard text as a duplicate only if its SHA-256 is
\* the content_hash of the last row that was stored, so a text whose store
\* failed is stored when a later poll reads it again.
C12_DropOnlyStoredDuplicate ==
    [][(clip_last' = "duplicate" /\ clip_last # "duplicate") =>
           /\ clipboard_history # <<>>
           /\ compute_content_hash(Truncate(clipboard)) =
                  clipboard_history[Len(clipboard_history)].content_hash]_vars

-----------------------------------------------------------------------------
(* Claims about the screen capture: specification SpecScreen *)

\* C4: no two consecutively inserted rows of table captures have the same
\* perceptual hash, in every capture mode and after any sequence of capture
\* cycles.
C4_NoConsecutiveDuplicateHash ==
    \A i \in 1..(Len(captures) - 1) :
        captures[i].screen_hash # captures[i + 1].screen_hash

\* screen_hash of the last row stored for a monitor index, if any
C13_LastStoredHash(rows, i) ==
    LET own == SelectSeq(rows, LAMBDA r : r.monitor_index = i)
    IN  IF own = <<>> THEN NoScreenHash ELSE own[Len(own)].screen_hash

\* The monitor indices a cycle grabs in the configured mode
C13_Grabbed ==
    IF capture_config.mode = "combined" THEN {0}
    ELSE IF capture_config.mode = "all" THEN Monitors
    ELSE IF capture_config.mode = "specific"
    THEN {capture_config.specific_monitors[k] :
              k \in DOMAIN capture_config.specific_monitors} \cap Monitors
    ELSE {1}

\* Rows a step appended to table captures
C13_NewRows == {captures'[k] : k \in (Len(captures) + 1)..Len(captures')}

\* C13: in a capture cycle the frame of a monitor index is dropped without a
\* row exactly when its perceptual hash is the hash of the last frame stored
\* for that index.
C13_DropExactlyLastStored ==
    [][(screens' = screens /\ screen_last' # "raised") =>
           \A i \in C13_Grabbed :
               LET current_hash == compute_image_hash(Grab(screens, i))
               IN  (\E r \in C13_NewRows : r.monitor_index = i)
                       <=> current_hash # C13_LastStoredHash(captures, i)]_vars

-----------------------------------------------------------------------------
(* Claims about the redactor: specification SpecRedact *)

\* C10: for every text t and every enabled set of PII kinds,
\* redact(redact(t)) equals redact(t).
C10_RedactIdempotent ==
    Len(redact_out) >= 2 => redact_out[2] = redact_out[1]

\* Two matches share a character
C11_Overlap(m1, m2) == m1.start <= m2.end /\ m2.start <= m1.end

\* The text with the matches of `spans` that start at or after index i replaced
\* by their tokens, and every other character kept in its place
RECURSIVE C11_Splice(_, _, _)
C11_Splice(text, spans, i) ==
    IF i > Len(text) THEN <<>>
    ELSE IF \E m \in spans : m.start = i
         THEN LET m == CHOOSE x \in spans : x.start = i
              IN  RedactWith(m.pii_type) \o C11_Splice(text, spans, m.end + 1)
         ELSE <<text[i]>> \o C11_Splice(text, spans, i + 1)

\* C11: redact replaces only pairwise non-overlapping matched spans, each by the
\* token of its kind, and every character outside the replaced spans is in the
\* output unchanged and in the same order.
C11_RedactFrame ==
    Len(redact_out) >= 1 =>
        \E spans \in SUBSET detect(redact_in, enabled_types) :
            /\ \A m1, m2 \in spans : m1 # m2 => ~C11_Overlap(m1, m2)
            /\ redact_out[1] = C11_Splice(redact_in, spans, 1)

-----------------------------------------------------------------------------
(* Claims about the agent orchestrator: specification SpecOrch *)

\* The steps of the plan that a step's depends_on lists
C18_Listed(i) == plan_steps[i].depends_on \cap DOMAIN plan_steps

\* C18: in plan execution a step is executed only after every step listed in
\* its depends_on has completed; a step with a failed dependency is marked
\* failed without being executed; a step is marked failed without being
\* executed only when a step it lists has not completed, and the loop ends
\* only when every step was executed or marked failed, so a failed step never
\* keeps a later step that does not depend on it from being executed.
C18_DependenciesHonoured ==
    [][/\ \A i \in DOMAIN plan_steps :
              (plan_steps[i].status # "running" /\ plan_steps'[i].status = "running")
                  => \A d \in C18_Listed(i) : plan_steps[d].status = "completed"
       /\ \A i \in DOMAIN plan_steps :
              (/\ plan_steps[i].status = "pending"
               /\ plan_steps'[i].status # "pending"
               /\ \E d \in C18_Listed(i) : plan_steps[d].status = "failed")
                  => /\ plan_steps'[i].status = "failed"
                     /\ plan_steps'[i].error = "Dependencies not met"
       /\ \A i \in DOMAIN plan_steps :
              (plan_steps[i].status = "pending" /\ plan_steps'[i].status = "failed")
                  => \E d \in C18_Listed(i) : plan_steps[d].status # "completed"
       /\ (orch_pc = "loop" /\ orch_pc' = "response")
              => \A i \in DOMAIN plan_steps :
                     plan_steps[i].status \in {"completed", "failed"}]_vars

\* C18 witness: an executed plan whose first step raised and whose second
\* step, which lists the first, was marked failed for its dependencies.
C18_Witness ==
    /\ orch_pc = "done"
    /\ Len(plan_steps) = 2
    /\ plan_steps[1].status = "failed" /\ plan_steps[1].error = "str(e)"
    /\ plan_steps[2].depends_on = {1}
    /\ plan_steps[2].status = "failed"
    /\ plan_steps[2].error = "Dependencies not met"

\* C19: a plan step whose action is not one of the tools in the catalog ends
\* with status failed and an error, never with status completed.
C19_UnknownActionFails ==
    orch_pc \in {"response", "done"} =>
        \A i \in DOMAIN plan_steps :
            plan_steps[i].action \notin AVAILABLE_TOOLS
                => /\ plan_steps[i].status = "failed"
                   /\ plan_steps[i].error # NoError

\* The completed answer steps and the completed steps of the plan
C20_CompletedAnswers ==
    {i \in DOMAIN plan_steps :
         plan_steps[i].action = "answer" /\ plan_steps[i].status = "completed"}

C20_CompletedSteps == {i \in DOMAIN plan_steps : plan_steps[i].status = "completed"}

C20_Last(S) == CHOOSE i \in S : \A j \in S : j <= i

\* A fallback summary of a result: the result printed, alone or after the
\* "Based on my analysis: " opening
C20_Summaries(result) ==
    {ToStr(result), <<"Based on my analysis: ">> \o ToStr(result)}

\* C20: the response of an executed plan is the result of the last completed
\* answer step when one exists; otherwise it is a fallback summary of a
\* completed result, and when no step completed it is the fixed
\* not-enough-information message.
C20_ResponseByRule ==
    orch_pc = "done" =>
        IF C20_CompletedAnswers # {}
        THEN response = plan_steps[C20_Last(C20_CompletedAnswers)].result.value
        ELSE IF C20_CompletedSteps # {}
        THEN \E i \in C20_CompletedSteps : response \in C20_Summaries(plan_steps[i].result)
        ELSE response = NotEnoughInformation

-----------------------------------------------------------------------------
(* Claims about the daemons' run loops: C22 under SpecLoopsFair, C23 under
   SpecLoops *)

\* stop() was called on a daemon whose run() has not returned
C22_Stopping(d) == ~daemon_running[d] /\ daemon_pc[d] \notin {"off", "exited"}

-----------------------------------------------------------------------------
(* Claims about the dashboard's relationship graph: specification SpecDash *)

\* The records in which both entity texts are mentioned
C25_RecordsMentioningBoth(a, b) ==
    {c \in 1..MaxRecords :
        /\ \E r \in DOMAIN rel_entities :
               rel_entities[r].content_id = c /\ rel_entities[r].entity_text = a
        /\ \E r \in DOMAIN rel_entities :
               rel_entities[r].content_id = c /\ rel_entities[r].entity_text = b}

\* C25: in the graph get_relationships returns, the weight of the edge between
\* two entities is the number of records in which both are mentioned.
C25_WeightCountsRecords ==
    \A k \in DOMAIN rel_out.edges :
        LET e == rel_out.edges[k]
        IN  e.source # e.target =>
                e.weight = Cardinality(C25_RecordsMentioningBoth(e.source, e.target))

-----------------------------------------------------------------------------
(* Claims about the action executor: C26 under SpecExec, C30 under SpecExecFair *)

\* The category's required level is above the executor's
C26_Above(category) ==
    LevelIndex(PERMISSION_REQUIREMENTS(category)) > LevelIndex(permission_level)

\* C26: an action whose category requires a permission level above the
\* executor's is never routed to a tool, and execute ends with PermissionError
\* for it, having published nothing.
C26_PermissionGuardsDispatch ==
    /\ [](\A k \in DOMAIN tool_calls : ~C26_Above(tool_calls[k].category))
    /\ [][\A pieces \in ActionTypes :
              (/\ ExecuteStart(pieces)
               /\ Len(split_once(pieces)) = 2
               /\ C26_Above(split_once(pieces)[1]))
                  => /\ exec_result' = "PermissionError"
                     /\ exec_pc' = "idle"
                     /\ UNCHANGED <<published, tool_calls>>]_vars

\* A desktop action was refused by a "safe" executor that has run a file action
C26_Witness ==
    /\ permission_level = "safe"
    /\ exec_result = "PermissionError"
    /\ tool_calls = <<[call |-> 1, category |-> "file"]>>
    /\ exec_calls = 2

\* The events published for a call, in order
C30_EventsOf(call) ==
    LET Mine(p) == p.call = call
        mine == SelectSeq(published, Mine)
    IN  [k \in DOMAIN mine |-> mine[k].event]

\* C30: a call of execute that passes both checks publishes ACTION_STARTED,
\* then ACTION_COMPLETED if the dispatch returned or ACTION_FAILED if it raised,
\* and nothing else; a call that a check rejects publishes nothing.
C30_StartedThenOneOutcome ==
    /\ [](\A call \in 1..exec_calls :
             \/ C30_EventsOf(call) = <<>> /\ exec_cur.call # call
             \/ C30_EventsOf(call) = <<"action.started">> /\ exec_cur.call = call
             \/ /\ C30_EventsOf(call) \in {<<"action.started", "action.completed">>,
                                           <<"action.started", "action.failed">>}
                /\ exec_cur.call # call)
    /\ [][/\ exec_result' \in {"ValueError", "PermissionError"} /\ exec_calls' # exec_calls
              => UNCHANGED published
          /\ exec_pc = "returned" /\ exec_pc' = "idle"
              => published' = Append(published, [call |-> exec_cur.call,
                                                 event |-> "action.completed"])
          /\ exec_pc = "raised" /\ exec_pc' = "idle"
              => published' = Append(published, [call |-> exec_cur.call,
                                                 event |-> "action.failed"])]_vars
    /\ \A call \in 1..MaxExecutions :
           (C30_EventsOf(call) = <<"action.started">>) ~> (Len(C30_EventsOf(call)) = 2)

\* One call completed and the next one failed
C30_Witness ==
    /\ C30_EventsOf(1) = <<"action.started", "action.completed">>
    /\ C30_EventsOf(2) = <<"action.started", "action.failed">>
    /\ exec_pc = "idle"

-----------------------------------------------------------------------------
(* Claims about the user manager's sessions: specification SpecAuth *)

\* C27: validate_session returns a user only for the token of a session that
\* was created, has not expired and has not been invalidated; a token that
\* invalidate_session or invalidate_all_sessions removed never validates again.
C27_OnlyLiveSessionsValidate ==
    [][\A token \in 1..MaxSessions :
           (ValidateSession(token) /\ auth_last'.user # NoUser) =>
               /\ token <= session_seq
               /\ \E s \in sessions : s.token = token /\ s.expires_at > auth_clock
               /\ token \notin invalidated]_vars

\* A token that was invalidated was presented again and refused, while another
\* session is live
C27_Witness ==
    /\ auth_last.op = "validate"
    /\ auth_last.token \in invalidated
    /\ auth_last.user = NoUser
    /\ \E s \in sessions : validate_session(s.token) # NoUser

-----------------------------------------------------------------------------
(* Claims about the onboarding: specification SpecOnb *)

\* C28: whenever the user has registered a desktop device and a browser
\* extension, in either order and whatever was registered later, the user's
\* current_step is COMPLETED.
C28_BothRegisteredIsCompleted ==
    (onb_devices >= 1 /\ onb_extensions >= 1) => onb_row.current_step = "completed"

====
